---------------------------- MODULE Spec2Model ----------------------------
(***************************************************************************)
(* Model of the GitHub-backed upload service of auto3dm:                   *)
(* src/app/api/gh-upload/route.ts (GET / POST / DELETE handlers with the   *)
(* allow-list gate and the direct / pull-request publication paths), the   *)
(* NextAuth session callbacks it relies on, and the remote GitHub          *)
(* repository the handlers talk to.                                        *)
(*                                                                         *)
(* A request handler is an async function: it runs atomically up to its    *)
(* next awaited fetch, so every remote call is one step of the request and *)
(* the steps of different requests interleave.                             *)
(***************************************************************************)
EXTENDS Integers, Sequences, FiniteSets, TLC

\* ------------------------------------------------------------------ bounds
NumReqs == 2         \* concurrent requests
MaxClock == 2        \* Date.now() ranges over 1..MaxClock

Reqs == 1..NumReqs

\* ----------------------------------------------------------- JS strings
\* Strings are TLA+ strings; a character is a string of length 1.
At(s, i) == SubSeq(s, i, i)

StartsWith(s, p) == Len(s) >= Len(p) /\ SubSeq(s, 1, Len(p)) = p

RECURSIVE IndexFrom(_, _, _)
IndexFrom(s, c, i) ==
  IF i > Len(s) THEN 0 ELSE IF At(s, i) = c THEN i ELSE IndexFrom(s, c, i + 1)

\* position of the first c in s, 0 when there is none
IndexOf(s, c) == IndexFrom(s, c, 1)

Includes(s, c) == IndexOf(s, c) # 0

RECURSIVE Split(_, _)
Split(s, sep) ==
  LET i == IndexOf(s, sep)
  IN  IF i = 0 THEN << s >>
      ELSE << SubSeq(s, 1, i - 1) >> \o Split(SubSeq(s, i + 1, Len(s)), sep)

RECURSIVE Trim(_)
Trim(s) ==
  IF s = "" THEN s
  ELSE IF At(s, 1) = " " THEN Trim(SubSeq(s, 2, Len(s)))
  ELSE IF At(s, Len(s)) = " " THEN Trim(SubSeq(s, 1, Len(s) - 1))
  ELSE s

\* .map(s => s.trim())
TrimAll(q) == [i \in 1..Len(q) |-> Trim(q[i])]

SeqRange(q) == {q[i] : i \in 1..Len(q)}

UpperChars == "ABCDEFGHIJKLMNOPQRSTUVWXYZ"
LowerChars == "abcdefghijklmnopqrstuvwxyz"
DigitChars == "0123456789"

IsAlnum(c) == Includes(UpperChars, c) \/ Includes(LowerChars, c) \/ Includes(DigitChars, c)

LowerChar(c) == IF Includes(UpperChars, c) THEN At(LowerChars, IndexOf(UpperChars, c)) ELSE c

RECURSIVE ToLowerCase(_)
ToLowerCase(s) == IF s = "" THEN "" ELSE LowerChar(At(s, 1)) \o ToLowerCase(SubSeq(s, 2, Len(s)))

\* ------------------------------------------------------------ JS values
\* A value that may be null / undefined (session.user.login, form fields).
Null == [t |-> "null"]
Str(v) == [t |-> "str", v |-> v]
Truthy(x) == x.t = "str" /\ x.v # ""
\* String(form.get(name) || d): an absent and an empty field both give d
OrDefault(v, d) == IF v = "" THEN d ELSE v

VARIABLES
  env,      \* process.env of the server process
  config,   \* the module-level constants computed from it
  clock,    \* the time of the last reading of Date.now()
  refs,     \* remote repository: branch name -> head commit sha
  commits,  \* remote repository: commit sha -> tree (path -> blob sha)
  prs,      \* remote repository: sequence of pull requests
  reqs      \* the requests being served: position, inputs, locals, calls, response

vars == << env, config, clock, refs, commits, prs, reqs >>

\* ------------------------------------------------- module-level constants
\* The constants are computed once, when the module is loaded: Init fills
\* config from env with the operators below.

\* process.env.GH_BRANCH || 'main'
branchOf(e) == IF e.GH_BRANCH # "" THEN e.GH_BRANCH ELSE "main"

\* the flag compared with 'true' instead of '1'
requirePrOf_true(e) == (e.REQUIRE_PR = "true")

\* (process.env.REQUIRE_PR || '') === '1'
requirePrOf(e) == (e.REQUIRE_PR = "1")

\* the allow-list without the trim of its entries
allowedOf_noTrim(e) == SelectSeq(Split(e.ALLOWED_UPLOADERS, ","), LAMBDA s : s # "")

\* String(env).split(',').map(s => s.trim()).filter(Boolean)
allowedOf(e) == SelectSeq(TrimAll(Split(e.ALLOWED_UPLOADERS, ",")), LAMBDA s : s # "")

\* GH_REPO.includes('/') ? GH_REPO.split('/') : ['', '']
repoPartsOf(e) == IF Includes(e.GH_REPO, "/") THEN Split(e.GH_REPO, "/") ELSE << "", "" >>

moduleConstants(e) ==
  [GH_TOKEN |-> e.GH_TOKEN, GH_REPO |-> e.GH_REPO, GH_BRANCH |-> branchOf(e),
   REQUIRE_PR |-> requirePrOf(e), ALLOWED |-> allowedOf(e),
   OWNER |-> repoPartsOf(e)[1], REPO |-> repoPartsOf(e)[2]]

GH_TOKEN == config.GH_TOKEN
GH_REPO == config.GH_REPO
GH_BRANCH == config.GH_BRANCH
REQUIRE_PR == config.REQUIRE_PR
ALLOWED == config.ALLOWED
OWNER == config.OWNER
REPO == config.REPO

badEnv == GH_TOKEN = "" \/ GH_REPO = "" \/ OWNER = "" \/ REPO = ""

\* the url without the ref
cdnUrl_noRef(path) == "https://cdn.jsdelivr.net/gh/" \o GH_REPO \o "/" \o path

cdnUrl(path) == "https://cdn.jsdelivr.net/gh/" \o GH_REPO \o "@" \o GH_BRANCH \o "/" \o path


\* --------------------------------------------------- content placement
IsSafeChar(c) == IsAlnum(c) \/ c = "_" \/ c = "." \/ c = "-"

\* (v || '').replace(/[^a-zA-Z0-9_.-]/g, '_')
RECURSIVE safeName(_)
safeName(v) ==
  IF v = "" THEN ""
  ELSE (IF IsSafeChar(At(v, 1)) THEN At(v, 1) ELSE "_") \o safeName(SubSeq(v, 2, Len(v)))

\* .replace(/[^a-zA-Z0-9]+/g, '-') : every maximal run of other characters
\* becomes one '-'.  inRun says that the previous character was in a run.
RECURSIVE Dashify(_, _)
Dashify(v, inRun) ==
  IF v = "" THEN ""
  ELSE IF IsAlnum(At(v, 1)) THEN At(v, 1) \o Dashify(SubSeq(v, 2, Len(v)), FALSE)
  ELSE (IF inRun THEN "" ELSE "-") \o Dashify(SubSeq(v, 2, Len(v)), TRUE)

\* .replace(/^-+|-+$/g, '')
RECURSIVE TrimDashes(_)
TrimDashes(v) ==
  IF v = "" THEN v
  ELSE IF At(v, 1) = "-" THEN TrimDashes(SubSeq(v, 2, Len(v)))
  ELSE IF At(v, Len(v)) = "-" THEN TrimDashes(SubSeq(v, 1, Len(v) - 1))
  ELSE v

\* normalize('NFKD') and the removal of combining marks leave ASCII text
\* unchanged; the inputs of the model are ASCII.
slug(v) ==
  LET s == ToLowerCase(TrimDashes(Dashify(v, FALSE)))
  IN  IF s = "" THEN "x" ELSE s

\* (file.name || '').split('.').pop()?.toLowerCase() || ''
extOf(name) == LET parts == Split(name, ".") IN ToLowerCase(parts[Len(parts)])

\* the list of image extensions with the model format let in
ImageExts_withGlb == {"png", "jpg", "jpeg", "webp", "glb"}

ImageExts == {"png", "jpg", "jpeg", "webp"}

\* the path without its timestamp
uploadPath_noTime(kind, brand, model, now, fileName) ==
  (IF kind = "model" THEN "models" ELSE "images")
    \o "/" \o slug(brand) \o "/" \o slug(model) \o "/" \o safeName(fileName)

\* `${base}/${slug(brand)}/${slug(model)}/${Date.now()}-${safeName(file.name)}`
uploadPath(kind, brand, model, now, fileName) ==
  (IF kind = "model" THEN "models" ELSE "images")
    \o "/" \o slug(brand) \o "/" \o slug(model) \o "/" \o ToString(now) \o "-" \o safeName(fileName)

\* /^models\\/|^images\\//.test(path) as the source spells it: each root is
\* followed by an escaped backslash and then the slash, so the accepted
\* prefixes are  models\/  and  images\/ .
deleteRootOk(path) == StartsWith(path, "models\\/") \/ StartsWith(path, "images\\/")

\* ----------------------------------------------------------- access policy
\* jwt callback: the token carries the profile's login when it has one.
jwtCallback(profile) ==
  [login |-> IF profile.t = "profile" /\ Truthy(profile.login) THEN profile.login ELSE Null]

\* session callback: session.user.login = token.login || null
sessionCallback(token) ==
  [user |-> [login |-> IF Truthy(token.login) THEN token.login ELSE Null]]

\* getServerSession(authOptions): null without a signed-in caller.
getServerSession(caller) ==
  IF caller.t = "anonymous" THEN Null
  ELSE [t |-> "session", s |-> sessionCallback(jwtCallback(caller))]

\* (session as any)?.user?.login
loginOf(session) == IF session.t = "session" THEN session.s.user.login ELSE Null

\* the gate without the allow-list: any login passes
isAllowed_anyLogin(login) == Truthy(login)

isAllowed(login) ==
  Truthy(login) /\ (Len(ALLOWED) = 0 \/ login.v \in SeqRange(ALLOWED))

requireAuthAllowed(caller) ==
  LET session == getServerSession(caller)
      login == loginOf(session)
  IN  [session |-> session, login |-> login, allowed |-> isAllowed(login)]

\* `by @${login}` of the commit messages
loginText(login) == IF login.t = "str" THEN login.v ELSE "null"


\* ------------------------------------------------ the remote repository
\* What api.github.com answers to the fetch of each helper.  fault = 0 is the
\* answer the repository state determines; any other fault is a failure of
\* the remote that does not depend on the state (rejected credential,
\* here the rejection of the credential).
Faults == {0, 401}

IsOk(status) == status >= 200 /\ status <= 299

\* the text of an error answer
RemoteText(status) ==
  CASE status = 401 -> "Bad credentials"
    [] status = 404 -> "Not Found"
    [] status = 409 -> "does not match"
    [] status = 422 -> "Validation Failed"
    [] OTHER -> "Server Error"

Answer(status, value, newRefs, newCommits, newPrs) ==
  [status |-> status, value |-> value, refs |-> newRefs, commits |-> newCommits, prs |-> newPrs]

Refused(status) == Answer(status, "", refs, commits, prs)

NewSha == "c" \o ToString(Cardinality(DOMAIN commits) + 1)

BlobSha(content) == "blob:" \o content

TreeOf(branch) == commits[refs[branch]]

TreePut(tree, path, blob) ==
  [p \in (DOMAIN tree) \cup {path} |-> IF p = path THEN blob ELSE tree[p]]

TreeDel(tree, path) == [p \in (DOMAIN tree) \ {path} |-> tree[p]]

Commit(branch, tree) ==
  [newRefs |-> [b \in DOMAIN refs |-> IF b = branch THEN NewSha ELSE refs[b]],
   newCommits |-> [c \in (DOMAIN commits) \cup {NewSha} |->
                     IF c = NewSha THEN tree ELSE commits[c]]]

\* GET /git/ref/heads/{branch}
RemoteGetRef(branch, fault) ==
  IF fault # 0 THEN Refused(fault)
  ELSE IF branch \notin DOMAIN refs THEN Refused(404)
  ELSE Answer(200, refs[branch], refs, commits, prs)

\* POST /git/refs {ref, sha}
RemoteCreateRef(fromSha, branch, fault) ==
  IF fault # 0 THEN Refused(fault)
  ELSE IF branch \in DOMAIN refs \/ fromSha \notin DOMAIN commits THEN Refused(422)
  ELSE Answer(201, "",
              [b \in (DOMAIN refs) \cup {branch} |-> IF b = branch THEN fromSha ELSE refs[b]],
              commits, prs)

\* PUT /contents/{path} {message, content, branch, sha?} ; sha = "" : no sha
RemotePutContents(path, content, branch, sha, fault) ==
  IF fault # 0 THEN Refused(fault)
  ELSE IF branch \notin DOMAIN refs THEN Refused(404)
  ELSE IF path \in DOMAIN TreeOf(branch) /\ sha = "" THEN Refused(422)
  ELSE IF path \in DOMAIN TreeOf(branch) /\ sha # TreeOf(branch)[path] THEN Refused(409)
  ELSE LET c == Commit(branch, TreePut(TreeOf(branch), path, BlobSha(content)))
       IN  Answer(IF path \in DOMAIN TreeOf(branch) THEN 200 ELSE 201,
                  NewSha, c.newRefs, c.newCommits, prs)

\* DELETE /contents/{path} {message, branch, sha}
RemoteDeleteContents(path, branch, sha, fault) ==
  IF fault # 0 THEN Refused(fault)
  ELSE IF branch \notin DOMAIN refs THEN Refused(404)
  ELSE IF path \notin DOMAIN TreeOf(branch) THEN Refused(404)
  ELSE IF sha # TreeOf(branch)[path] THEN Refused(409)
  ELSE LET c == Commit(branch, TreeDel(TreeOf(branch), path))
       IN  Answer(200, NewSha, c.newRefs, c.newCommits, prs)

\* GET /contents/{path}?ref={branch}
RemoteGetContents(path, branch, fault) ==
  IF fault # 0 THEN Refused(fault)
  ELSE IF branch \notin DOMAIN refs THEN Refused(404)
  ELSE IF path \notin DOMAIN TreeOf(branch) THEN Refused(404)
  ELSE Answer(200, TreeOf(branch)[path], refs, commits, prs)

PullUrl(number) == "https://github.com/" \o GH_REPO \o "/pull/" \o ToString(number)

\* POST /pulls {title, head, base}
RemoteCreatePull(from, to, title, fault) ==
  IF fault # 0 THEN Refused(fault)
  ELSE IF from \notin DOMAIN refs \/ to \notin DOMAIN refs THEN Refused(422)
  ELSE IF refs[from] = refs[to] THEN Refused(422)
  ELSE IF \E i \in 1..Len(prs) : prs[i].head = from /\ prs[i].base = to THEN Refused(422)
  ELSE Answer(201, PullUrl(Len(prs) + 1), refs, commits,
              Append(prs, [head |-> from, base |-> to, title |-> title]))


\* GET /user : whose token this is
RemoteGetUser(fault) ==
  IF fault # 0 THEN Refused(fault) ELSE Answer(200, "", refs, commits, prs)

\* GET /repos/{owner}/{repo}
RemoteGetRepo(fault) ==
  IF fault # 0 THEN Refused(fault) ELSE Answer(200, "", refs, commits, prs)

\* the directories of a path: its prefixes that end before a '/'
DirsOf(path) == {SubSeq(path, 1, i - 1) : i \in {j \in 2..Len(path) : At(path, j) = "/"}}

BlobSize(blob) == Len(blob) - Len(BlobSha(""))

\* GET /git/trees/{branch}?recursive=1 : blobs and the trees above them
RemoteGetTree(branch, fault) ==
  IF fault # 0 THEN Refused(fault)
  ELSE IF branch \notin DOMAIN refs THEN Refused(404)
  ELSE Answer(200,
         {[path |-> p, type |-> "blob", size |-> BlobSize(TreeOf(branch)[p]), sha |-> TreeOf(branch)[p]] :
            p \in DOMAIN TreeOf(branch)}
         \cup {[path |-> d, type |-> "tree", size |-> 0, sha |-> "tree:" \o d] :
            d \in UNION {DirsOf(p) : p \in DOMAIN TreeOf(branch)}},
         refs, commits, prs)

\* ------------------------------------------------------------- listing
\* the characters the model uses, in increasing order of their code units
Ascii == " !#$%&()*+,-./0123456789:;<=>?@ABCDEFGHIJKLMNOPQRSTUVWXYZ[\\]^_abcdefghijklmnopqrstuvwxyz{|}~"

CharCode(c) == IndexOf(Ascii, c)

\* a < b on JS strings
RECURSIVE StrLess(_, _)
StrLess(a, b) ==
  IF b = "" THEN FALSE
  ELSE IF a = "" THEN TRUE
  ELSE IF At(a, 1) = At(b, 1) THEN StrLess(SubSeq(a, 2, Len(a)), SubSeq(b, 2, Len(b)))
  ELSE CharCode(At(a, 1)) < CharCode(At(b, 1))

\* .sort((a, b) => (a.path < b.path ? 1 : -1)) : greatest path first
RECURSIVE SortDesc(_)
SortDesc(S) ==
  IF S = {} THEN << >>
  ELSE LET top == CHOOSE x \in S : \A y \in S \ {x} : ~StrLess(x.path, y.path)
       IN  << top >> \o SortDesc(S \ {top})

PageSize == 200

Take(q, n) == SubSeq(q, 1, IF Len(q) < n THEN Len(q) ELSE n)

\* the prefix taken as it comes
StripLeadingSlashes_none(v) == v

\* .replace(/^\/+/, '')
RECURSIVE StripLeadingSlashes(_)
StripLeadingSlashes(v) ==
  IF v # "" /\ At(v, 1) = "/" THEN StripLeadingSlashes(SubSeq(v, 2, Len(v))) ELSE v

listItems(entries, prefix) ==
  Take(SortDesc({[path |-> n.path, size |-> n.size, sha |-> n.sha, url |-> cdnUrl(n.path)] :
                   n \in {e \in entries : e.type = "blob"
                                          /\ (prefix = "" \/ StartsWith(e.path, prefix \o "/"))}}),
       PageSize)


\* ------------------------------------------------------------ requests
\* who calls: no session at all, a GitHub profile without a login, or a
\* profile with one
Callers ==
  {[t |-> "anonymous", login |-> Null],
   [t |-> "profile", login |-> Null],
   [t |-> "profile", login |-> Str("alice")],
   [t |-> "profile", login |-> Str("mallory")]}

NoFile == [present |-> FALSE, name |-> "", content |-> ""]
File(name, content) == [present |-> TRUE, name |-> name, content |-> content]

Form(file, brand, model, kind, pr) ==
  [file |-> file, brand |-> brand, model |-> model, kind |-> kind, pr |-> pr]

\* the multipart forms of the upload requests
PostForms ==
  {Form(File("car.glb", "glTF"), "Kia", "Carnival", "model", ""),
   Form(File("car.glb", "glTF"), "Kia", "Carnival", "model", "1"),
   Form(File("preview.JPG", "JFIF"), "Kia", "Carnival", "image", ""),
   Form(File("preview.JPG", "JFIF!"), "Kia", "Carnival", "texture", "1"),
   Form(File("part.stl", "solid"), "", "", "", ""),
   Form(File("car.glb", "glTF"), "Kia", "Carnival", "image", ""),
   Form(File("glb", "glTF"), "Kia", "Carnival", "model", ""),
   Form(NoFile, "Kia", "Carnival", "model", "")}

\* the path field of the delete requests
DeletePaths ==
  {"models\\/old.glb", "images\\/none.png", "models/kia/rio/1-car.glb", "README.md", ""}

\* the query of the GET requests
Query(ping, list, prefix) == [ping |-> ping, list |-> list, prefix |-> prefix]
GetQueries ==
  {Query("1", "", ""), Query("", "1", ""), Query("", "1", "/models/kia"), Query("", "", "")}

\* Math.random().toString(36).slice(2, 8)
Randoms == {"k3x9qa"}

Loc0 ==
  [sessionRead |-> FALSE, login |-> Null, allowed |-> FALSE, path |-> "", content |-> "", forcePr |-> FALSE,
   baseSha |-> "", prBranch |-> "", shaMain |-> "", shaBranch |-> "", who |-> 0]

\* requests are numbered in the order in which they arrive
Arrives(r) == reqs[r].pc = "idle" /\ \A o \in Reqs : o < r => reqs[o].pc # "idle"

NoResp == [status |-> 0, body |-> [ok |-> FALSE]]

Idle ==
  [method |-> "", pc |-> "idle", caller |-> [t |-> "anonymous", login |-> Null],
   in |-> [none |-> TRUE], loc |-> Loc0, log |-> << >>, resp |-> NoResp]

Started(method, caller, in) == [Idle EXCEPT !.method = method, !.caller = caller, !.in = in]

\* NextResponse.json(body, {status})
Finish(q, status, body) == [q EXCEPT !.pc = "done", !.resp = [status |-> status, body |-> body]]

ErrBody(msg) == [ok |-> FALSE, error |-> msg]

\* a catch that answers success
Caught_asSuccess(q, msg) == Finish(q, 200, [ok |-> TRUE, error |-> msg])

\* catch (e) { return NextResponse.json({ok: false, error: String(e.message)}, {status: 500}) }
Caught(q, msg) == Finish(q, 500, ErrBody(msg))

\* the message without the remote's status
ThrownText_noStatus(what, status) == what \o ": " \o RemoteText(status)

\* `${what} ${res.status}: ${await res.text()}`
ThrownText(what, status) == what \o " " \o ToString(status) \o ": " \o RemoteText(status)

\* one fetch of a request: what was asked, the status that came back and, for
\* the helpers that return one, the sha or url read from the answer
CallRec(op, branch, path, sha, base, status, ret) ==
  [op |-> op, branch |-> branch, path |-> path, sha |-> sha, base |-> base, status |-> status,
   ret |-> ret]

Called(q, op, branch, path, sha, ans) ==
  [q EXCEPT !.log = Append(@, CallRec(op, branch, path, sha, "", ans.status,
                                      IF op \in {"getHeadSha", "getFileSha"} THEN ans.value ELSE ""))]

\* openPr(from, to, title)
CalledPr(q, from, to, ans) ==
  [q EXCEPT !.log = Append(@, CallRec("openPr", from, "", "", to, ans.status, ans.value))]

WithSession(q, auth) ==
  [q EXCEPT !.loc.sessionRead = TRUE, !.loc.login = auth.login, !.loc.allowed = auth.allowed]

Remote(ans) == refs' = ans.refs /\ commits' = ans.commits /\ prs' = ans.prs

\* Date.now(): the time of the last reading or a later one
Now == clock..MaxClock

\* GET with the ping behind the session
GET_pingGated(r) ==
  /\ Arrives(r)
  /\ \E caller \in Callers, query \in GetQueries :
       LET q == Started("GET", caller, query)
           auth == requireAuthAllowed(caller)
       IN  reqs' = [reqs EXCEPT ![r] =
             IF badEnv THEN Finish(q, 500, ErrBody("Missing GH_TOKEN or GH_REPO env"))
             ELSE IF query.ping # "" \/ query.list # "" THEN
               IF ~auth.allowed THEN Finish(WithSession(q, auth), 403, ErrBody("Forbidden"))
               ELSE [WithSession(q, auth) EXCEPT !.pc = IF query.ping # "" THEN "pingWho" ELSE "listTree"]
             ELSE Finish(q, 200,
                    [ok |-> TRUE,
                     message |-> "Use POST to upload, GET ?list=1 to list, DELETE to remove."])]
  /\ UNCHANGED << env, config, clock, refs, commits, prs >>

\* ------------------------------------------------------------------ GET
GET(r) ==
  /\ Arrives(r)
  /\ \E caller \in Callers, query \in GetQueries :
       LET q == Started("GET", caller, query)
           auth == requireAuthAllowed(caller)
       IN  reqs' = [reqs EXCEPT ![r] =
             IF badEnv THEN Finish(q, 500, ErrBody("Missing GH_TOKEN or GH_REPO env"))
             ELSE IF query.ping # "" THEN [q EXCEPT !.pc = "pingWho"]
             ELSE IF query.list # "" THEN
               IF ~auth.allowed THEN Finish(WithSession(q, auth), 403, ErrBody("Forbidden"))
               ELSE [WithSession(q, auth) EXCEPT !.pc = "listTree"]
             ELSE Finish(q, 200,
                    [ok |-> TRUE,
                     message |-> "Use POST to upload, GET ?list=1 to list, DELETE to remove."])]
  /\ UNCHANGED << env, config, clock, refs, commits, prs >>

GET_pingWho(r) ==
  /\ reqs[r].pc = "pingWho"
  /\ \E fault \in Faults :
       LET ans == RemoteGetUser(fault)
           q == Called(reqs[r], "user", "", "", "", ans)
       IN  /\ Remote(ans)
           /\ reqs' = [reqs EXCEPT ![r] = [q EXCEPT !.pc = "pingRepo", !.loc.who = ans.status]]
  /\ UNCHANGED << env, config, clock >>

GET_pingRepo(r) ==
  /\ reqs[r].pc = "pingRepo"
  /\ \E fault \in Faults :
       LET ans == RemoteGetRepo(fault)
           q == Called(reqs[r], "repo", "", "", "", ans)
       IN  /\ Remote(ans)
           /\ reqs' = [reqs EXCEPT ![r] =
                Finish(q, 200,
                  [ok |-> IsOk(q.loc.who) /\ IsOk(ans.status),
                   status |-> [who |-> q.loc.who, repo |-> ans.status],
                   branch |-> GH_BRANCH])]
  /\ UNCHANGED << env, config, clock >>

GET_listTree(r) ==
  /\ reqs[r].pc = "listTree"
  /\ \E fault \in Faults :
       LET ans == RemoteGetTree(GH_BRANCH, fault)
           q == Called(reqs[r], "tree", GH_BRANCH, "", "", ans)
           prefix == StripLeadingSlashes(q.in.prefix)
       IN  /\ Remote(ans)
           /\ reqs' = [reqs EXCEPT ![r] =
                IF ~IsOk(ans.status)
                THEN Finish(q, 500, ErrBody("List failed: " \o ToString(ans.status)))
                ELSE Finish(q, 200,
                       [ok |-> TRUE, repo |-> GH_REPO, branch |-> GH_BRANCH,
                        items |-> listItems(ans.value, prefix)])]
  /\ UNCHANGED << env, config, clock >>


\* ----------------------------------------------------------------- POST
uploadBody(path) ==
  [ok |-> TRUE, path |-> path, url |-> cdnUrl(path), repo |-> GH_REPO, branch |-> GH_BRANCH]

\* the review answer without the pull request
uploadPrBody_noPr(path, prUrl) == uploadBody(path)

uploadPrBody(path, prUrl) ==
  [ok |-> TRUE, path |-> path, url |-> cdnUrl(path), repo |-> GH_REPO, branch |-> GH_BRANCH,
   pr |-> prUrl]

\* `auto3dm/${what}-${Date.now()}-${Math.random().toString(36).slice(2,8)}`
prBranchName(what, now, rnd) == "auto3dm/" \o what \o "-" \o ToString(now) \o "-" \o rnd

\* the form's pr field ignored
uploadForcePr_envOnly(pr) == REQUIRE_PR

\* (String(form.get('pr') || '') === '1') || REQUIRE_PR
uploadForcePr(pr) == (pr = "1") \/ REQUIRE_PR

\* the handler up to its first fetch
POST(r) ==
  /\ Arrives(r)
  /\ \E caller \in Callers, form \in PostForms, now \in Now :
       LET q0 == Started("POST", caller, form)
           auth == requireAuthAllowed(caller)
           q == WithSession(q0, auth)
           file == form.file
           brand == OrDefault(form.brand, "brand")
           model == OrDefault(form.model, "model")
           kind == OrDefault(form.kind, "model")
           forcePr == uploadForcePr(form.pr)
           ext == extOf(file.name)
           path == uploadPath(kind, brand, model, now, file.name)
           next ==
             IF badEnv THEN Finish(q0, 500, ErrBody("Missing GH_TOKEN or GH_REPO env"))
             ELSE IF ~auth.allowed THEN Finish(q, 403, ErrBody("Forbidden"))
             ELSE IF ~file.present THEN Finish(q, 400, ErrBody("No file"))
             ELSE IF kind = "model" /\ ext # "glb"
               THEN Finish(q, 400, ErrBody("Only .glb allowed"))
             ELSE IF kind = "image" /\ ext \notin ImageExts
               THEN Finish(q, 400, ErrBody("Images only: png/jpg/webp"))
             ELSE [q EXCEPT !.pc = IF forcePr THEN "getHeadSha" ELSE "put",
                            !.loc.path = path, !.loc.content = file.content,
                            !.loc.forcePr = forcePr]
       IN  /\ reqs' = [reqs EXCEPT ![r] = next]
           /\ clock' = IF reqs'[r].pc = "done" THEN clock ELSE now
  /\ UNCHANGED << env, config, refs, commits, prs >>

\* direct path: createOrUpdateFile(path, contentB64, message, GH_BRANCH)
POST_put(r) ==
  /\ reqs[r].method = "POST" /\ reqs[r].pc = "put"
  /\ \E fault \in Faults :
       LET path == reqs[r].loc.path
           ans == RemotePutContents(path, reqs[r].loc.content, GH_BRANCH, "", fault)
           q == Called(reqs[r], "createOrUpdateFile", GH_BRANCH, path, "", ans)
       IN  /\ Remote(ans)
           /\ reqs' = [reqs EXCEPT ![r] =
                IF IsOk(ans.status) THEN Finish(q, 200, uploadBody(path))
                ELSE Caught(q, ThrownText("PUT", ans.status))]
  /\ UNCHANGED << env, config, clock >>

\* review path: getHeadSha(GH_BRANCH), then the name of the review branch
POST_getHeadSha(r) ==
  /\ reqs[r].method = "POST" /\ reqs[r].pc = "getHeadSha"
  /\ \E fault \in Faults, rnd \in Randoms, now \in Now :
       LET ans == RemoteGetRef(GH_BRANCH, fault)
           q == Called(reqs[r], "getHeadSha", GH_BRANCH, "", "", ans)
       IN  /\ Remote(ans)
           /\ reqs' = [reqs EXCEPT ![r] =
                IF IsOk(ans.status)
                THEN [q EXCEPT !.pc = "createBranch", !.loc.baseSha = ans.value,
                               !.loc.prBranch = prBranchName("upload", now, rnd)]
                ELSE Caught(q, "getHeadSha " \o ToString(ans.status))]
           /\ clock' = IF IsOk(ans.status) THEN now ELSE clock
  /\ UNCHANGED << env, config >>

POST_createBranch(r) ==
  /\ reqs[r].method = "POST" /\ reqs[r].pc = "createBranch"
  /\ \E fault \in Faults :
       LET loc == reqs[r].loc
           ans == RemoteCreateRef(loc.baseSha, loc.prBranch, fault)
           q == Called(reqs[r], "createBranch", loc.prBranch, "", loc.baseSha, ans)
       IN  /\ Remote(ans)
           /\ reqs' = [reqs EXCEPT ![r] =
                IF IsOk(ans.status) THEN [q EXCEPT !.pc = "putBranch"]
                ELSE Caught(q, ThrownText("createBranch", ans.status))]
  /\ UNCHANGED << env, config, clock >>

\* createOrUpdateFile(path, contentB64, message, prBranch)
POST_putBranch(r) ==
  /\ reqs[r].method = "POST" /\ reqs[r].pc = "putBranch"
  /\ \E fault \in Faults :
       LET loc == reqs[r].loc
           ans == RemotePutContents(loc.path, loc.content, loc.prBranch, "", fault)
           q == Called(reqs[r], "createOrUpdateFile", loc.prBranch, loc.path, "", ans)
       IN  /\ Remote(ans)
           /\ reqs' = [reqs EXCEPT ![r] =
                IF IsOk(ans.status) THEN [q EXCEPT !.pc = "openPr"]
                ELSE Caught(q, ThrownText("PUT", ans.status))]
  /\ UNCHANGED << env, config, clock >>

POST_openPr(r) ==
  /\ reqs[r].method = "POST" /\ reqs[r].pc = "openPr"
  /\ \E fault \in Faults :
       LET loc == reqs[r].loc
           ans == RemoteCreatePull(loc.prBranch, GH_BRANCH, "[auto3dm] upload " \o loc.path, fault)
           q == CalledPr(reqs[r], loc.prBranch, GH_BRANCH, ans)
       IN  /\ Remote(ans)
           /\ reqs' = [reqs EXCEPT ![r] =
                IF IsOk(ans.status) THEN Finish(q, 200, uploadPrBody(loc.path, ans.value))
                ELSE Caught(q, ThrownText("PR", ans.status))]
  /\ UNCHANGED << env, config, clock >>


\* --------------------------------------------------------------- DELETE
\* the handler up to its first fetch
DELETE(r) ==
  /\ Arrives(r)
  /\ \E caller \in Callers, path \in DeletePaths :
       LET q0 == Started("DELETE", caller, [path |-> path])
           auth == requireAuthAllowed(caller)
           q == WithSession(q0, auth)
       IN  reqs' = [reqs EXCEPT ![r] =
             IF badEnv THEN Finish(q0, 500, ErrBody("Missing GH_TOKEN or GH_REPO env"))
             ELSE IF ~auth.allowed THEN Finish(q, 403, ErrBody("Forbidden"))
             ELSE IF path = "" THEN Finish(q, 400, ErrBody("Path required"))
             ELSE IF ~deleteRootOk(path)
               THEN Finish(q, 400, ErrBody("Only models/ or images/ allowed"))
             ELSE [q EXCEPT !.pc = "getFileSha", !.loc.path = path]]
  /\ UNCHANGED << env, config, clock, refs, commits, prs >>

\* shaMain = getFileSha(path, GH_BRANCH)
DELETE_getFileSha(r) ==
  /\ reqs[r].method = "DELETE" /\ reqs[r].pc = "getFileSha"
  /\ \E fault \in Faults :
       LET path == reqs[r].loc.path
           ans == RemoteGetContents(path, GH_BRANCH, fault)
           q == Called(reqs[r], "getFileSha", GH_BRANCH, path, "", ans)
       IN  /\ Remote(ans)
           /\ reqs' = [reqs EXCEPT ![r] =
                IF IsOk(ans.status)
                THEN [q EXCEPT !.pc = IF REQUIRE_PR THEN "getHeadSha" ELSE "deleteFile",
                               !.loc.shaMain = ans.value]
                ELSE Caught(q, ThrownText("meta", ans.status))]
  /\ UNCHANGED << env, config, clock >>

\* the delete answered with success whatever the remote said
DELETE_deleteFile_unchecked(r) ==
  /\ reqs[r].method = "DELETE" /\ reqs[r].pc = "deleteFile"
  /\ \E fault \in Faults :
       LET loc == reqs[r].loc
           ans == RemoteDeleteContents(loc.path, GH_BRANCH, loc.shaMain, fault)
           q == Called(reqs[r], "deleteFile", GH_BRANCH, loc.path, loc.shaMain, ans)
       IN  /\ Remote(ans)
           /\ reqs' = [reqs EXCEPT ![r] = Finish(q, 200, [ok |-> TRUE, deleted |-> loc.path])]
  /\ UNCHANGED << env, config, clock >>

\* direct path: deleteFile(path, message, GH_BRANCH, shaMain)
DELETE_deleteFile(r) ==
  /\ reqs[r].method = "DELETE" /\ reqs[r].pc = "deleteFile"
  /\ \E fault \in Faults :
       LET loc == reqs[r].loc
           ans == RemoteDeleteContents(loc.path, GH_BRANCH, loc.shaMain, fault)
           q == Called(reqs[r], "deleteFile", GH_BRANCH, loc.path, loc.shaMain, ans)
       IN  /\ Remote(ans)
           /\ reqs' = [reqs EXCEPT ![r] =
                IF IsOk(ans.status) THEN Finish(q, 200, [ok |-> TRUE, deleted |-> loc.path])
                ELSE Caught(q, ThrownText("DELETE", ans.status))]
  /\ UNCHANGED << env, config, clock >>

DELETE_getHeadSha(r) ==
  /\ reqs[r].method = "DELETE" /\ reqs[r].pc = "getHeadSha"
  /\ \E fault \in Faults, rnd \in Randoms, now \in Now :
       LET ans == RemoteGetRef(GH_BRANCH, fault)
           q == Called(reqs[r], "getHeadSha", GH_BRANCH, "", "", ans)
       IN  /\ Remote(ans)
           /\ reqs' = [reqs EXCEPT ![r] =
                IF IsOk(ans.status)
                THEN [q EXCEPT !.pc = "createBranch", !.loc.baseSha = ans.value,
                               !.loc.prBranch = prBranchName("delete", now, rnd)]
                ELSE Caught(q, "getHeadSha " \o ToString(ans.status))]
           /\ clock' = IF IsOk(ans.status) THEN now ELSE clock
  /\ UNCHANGED << env, config >>

DELETE_createBranch(r) ==
  /\ reqs[r].method = "DELETE" /\ reqs[r].pc = "createBranch"
  /\ \E fault \in Faults :
       LET loc == reqs[r].loc
           ans == RemoteCreateRef(loc.baseSha, loc.prBranch, fault)
           q == Called(reqs[r], "createBranch", loc.prBranch, "", loc.baseSha, ans)
       IN  /\ Remote(ans)
           /\ reqs' = [reqs EXCEPT ![r] =
                IF IsOk(ans.status) THEN [q EXCEPT !.pc = "getFileShaBranch"]
                ELSE Caught(q, ThrownText("createBranch", ans.status))]
  /\ UNCHANGED << env, config, clock >>

\* the sha read on the target branch used again, without the second read
DELETE_getFileShaBranch_reuseMain(r) ==
  /\ reqs[r].method = "DELETE" /\ reqs[r].pc = "getFileShaBranch"
  /\ reqs' = [reqs EXCEPT ![r] = [reqs[r] EXCEPT !.pc = "deleteFileBranch",
                                                !.loc.shaBranch = reqs[r].loc.shaMain]]
  /\ UNCHANGED << env, config, clock, refs, commits, prs >>

\* shaBranch = getFileSha(path, prBranch)
DELETE_getFileShaBranch(r) ==
  /\ reqs[r].method = "DELETE" /\ reqs[r].pc = "getFileShaBranch"
  /\ \E fault \in Faults :
       LET loc == reqs[r].loc
           ans == RemoteGetContents(loc.path, loc.prBranch, fault)
           q == Called(reqs[r], "getFileSha", loc.prBranch, loc.path, "", ans)
       IN  /\ Remote(ans)
           /\ reqs' = [reqs EXCEPT ![r] =
                IF IsOk(ans.status)
                THEN [q EXCEPT !.pc = "deleteFileBranch", !.loc.shaBranch = ans.value]
                ELSE Caught(q, ThrownText("meta", ans.status))]
  /\ UNCHANGED << env, config, clock >>

\* deleteFile(path, message, prBranch, shaBranch)
DELETE_deleteFileBranch(r) ==
  /\ reqs[r].method = "DELETE" /\ reqs[r].pc = "deleteFileBranch"
  /\ \E fault \in Faults :
       LET loc == reqs[r].loc
           ans == RemoteDeleteContents(loc.path, loc.prBranch, loc.shaBranch, fault)
           q == Called(reqs[r], "deleteFile", loc.prBranch, loc.path, loc.shaBranch, ans)
       IN  /\ Remote(ans)
           /\ reqs' = [reqs EXCEPT ![r] =
                IF IsOk(ans.status) THEN [q EXCEPT !.pc = "openPr"]
                ELSE Caught(q, ThrownText("DELETE", ans.status))]
  /\ UNCHANGED << env, config, clock >>

DELETE_openPr(r) ==
  /\ reqs[r].method = "DELETE" /\ reqs[r].pc = "openPr"
  /\ \E fault \in Faults :
       LET loc == reqs[r].loc
           ans == RemoteCreatePull(loc.prBranch, GH_BRANCH, "[auto3dm] delete " \o loc.path, fault)
           q == CalledPr(reqs[r], loc.prBranch, GH_BRANCH, ans)
       IN  /\ Remote(ans)
           /\ reqs' = [reqs EXCEPT ![r] =
                IF IsOk(ans.status)
                THEN Finish(q, 200, [ok |-> TRUE, deleted |-> loc.path, pr |-> ans.value])
                ELSE Caught(q, ThrownText("PR", ans.status))]
  /\ UNCHANGED << env, config, clock >>

\* ------------------------------------------------------------ the system
Env(token, repo, requirePr, allowed) ==
  [GH_TOKEN |-> token, GH_REPO |-> repo, GH_BRANCH |-> "", REQUIRE_PR |-> requirePr,
   ALLOWED_UPLOADERS |-> allowed]

\* the environments the server is started with
Envs ==
  {Env("ghp_t", "acme/cars", pr, al) : pr \in {"", "1"}, al \in {"", ",", " alice ,bob"}}
    \cup {Env("", "acme/cars", "", ""), Env("ghp_t", "", "1", ""), Env("ghp_t", "acme", "", "alice")}

\* the files of the target branch when the server starts
Tree0 ==
  ("README.md" :> BlobSha("hello")) @@ ("models/kia/rio/1-car.glb" :> BlobSha("glTF"))
    @@ ("models\\/old.glb" :> BlobSha("old"))

Init ==
  /\ env \in Envs
  /\ config = moduleConstants(env)
  /\ clock = 1
  /\ refs = [b \in {branchOf(env)} |-> "c1"]
  /\ commits = [c \in {"c1"} |-> Tree0]
  /\ prs = << >>
  /\ reqs = [r \in Reqs |-> Idle]

Next ==
  \E r \in Reqs :
       \/ GET(r) \/ GET_pingWho(r) \/ GET_pingRepo(r) \/ GET_listTree(r)
       \/ POST(r) \/ POST_put(r) \/ POST_getHeadSha(r) \/ POST_createBranch(r)
       \/ POST_putBranch(r) \/ POST_openPr(r)
       \/ DELETE(r) \/ DELETE_getFileSha(r) \/ DELETE_deleteFile(r) \/ DELETE_getHeadSha(r)
       \/ DELETE_createBranch(r) \/ DELETE_getFileShaBranch(r) \/ DELETE_deleteFileBranch(r)
       \/ DELETE_openPr(r)

Spec == Init /\ [][Next]_vars


\* ====================================================================
\* The storage paths of the upload endpoints, as functions of the form
\* ====================================================================
\* slug of the two-file endpoints: the same chain without the  || 'x' ; 'x'
\* is returned from the catch only, and nothing in the chain throws for a
\* string
slugBare(v) == ToLowerCase(TrimDashes(Dashify(v, FALSE)))

\* (name || 'file.bin').replace(/[^a-zA-Z0-9_.-]/g, '_')
safeFileName(name) == safeName(OrDefault(name, "file.bin"))

\* gh-upload POST: the path of the file of a form read at time now
storagePath(form, now) ==
  uploadPath(OrDefault(form.kind, "model"), OrDefault(form.brand, "brand"),
             OrDefault(form.model, "model"), now, form.name)

\* two-file endpoint: `${slug(brand)}/${slug(model)}/${Date.now()}` and
\* `${baseDir}/${safeFileName(file.name || 'model.glb')}`
twoFilePath(form, now) ==
  slugBare(OrDefault(form.brand, "brand")) \o "/" \o slugBare(OrDefault(form.model, "model"))
    \o "/" \o ToString(now) \o "/" \o safeFileName(OrDefault(form.name, "model.glb"))

PlaceKinds == {"model", "image"}
PlaceBrands == {"Kia", "!!!", ""}
PlaceModels == {"Carnival", "Land Rover"}
PlaceNames == {"preview.JPG", "my car(1).glb"}

PlaceForms ==
  {[kind |-> k, brand |-> b, model |-> m, name |-> n] :
     k \in PlaceKinds, b \in PlaceBrands, m \in PlaceModels, n \in PlaceNames}

Placed(endpoint, form, now, path) ==
  [method |-> "POST", pc |-> "placed", endpoint |-> endpoint, in |-> form, now |-> now,
   path |-> path]

\* gh-upload derives the path of an upload
Place(r) ==
  /\ Arrives(r)
  /\ \E form \in PlaceForms, now \in Now :
       /\ reqs' = [reqs EXCEPT ![r] = Placed("gh-upload", form, now, storagePath(form, now))]
       /\ clock' = now
  /\ UNCHANGED << env, config, refs, commits, prs >>

\* a two-file endpoint derives the path of its file
PlaceTwoFile(r) ==
  /\ Arrives(r)
  /\ \E form \in PlaceForms, now \in Now :
       /\ reqs' = [reqs EXCEPT ![r] = Placed("two-file", form, now, twoFilePath(form, now))]
       /\ clock' = now
  /\ UNCHANGED << env, config, refs, commits, prs >>

PlaceInit ==
  /\ env = Env("ghp_t", "acme/cars", "", "")
  /\ config = moduleConstants(env)
  /\ clock = 1
  /\ refs = [b \in {branchOf(env)} |-> "c1"]
  /\ commits = [c \in {"c1"} |-> Tree0]
  /\ prs = << >>
  /\ reqs = [r \in Reqs |-> Idle]

PlaceNext == \E r \in Reqs : Place(r) \/ PlaceTwoFile(r)

PlacementSpec == PlaceInit /\ [][PlaceNext]_vars


\* ====================================================================
\* The two-file upload endpoint (fields file and image in one request)
\* ====================================================================
\* const max = 75 * 1024 * 1024
MaxBytes == 75 * 1024 * 1024

\* (bytes / 1024 / 1024).toFixed(1)
toFixed1(bytes) ==
  LET tenths == (bytes * 20 + 1048576) \div 2097152
  IN  ToString(tenths \div 10) \o "." \o ToString(tenths % 10)

\* fileToBase64(f): throws for a buffer longer than max
fileToBase64(f) ==
  IF f.size > MaxBytes
  THEN [thrown |-> TRUE,
        message |-> "File " \o f.name \o " is too large (" \o toFixed1(f.size) \o " MB)"]
  ELSE [thrown |-> FALSE, message |-> ""]

\* encodeURIComponent on a path of letters, digits, '_', '.', '-' and '/'
RECURSIVE encodeURIComponent(_)
encodeURIComponent(v) ==
  IF v = "" THEN ""
  ELSE (IF At(v, 1) = "/" THEN "%2F" ELSE At(v, 1)) \o encodeURIComponent(SubSeq(v, 2, Len(v)))

\* the path the remote reads from the url
RECURSIVE UrlDecoded(_)
UrlDecoded(v) ==
  IF v = "" THEN ""
  ELSE IF StartsWith(v, "%2F") THEN "/" \o UrlDecoded(SubSeq(v, 4, Len(v)))
  ELSE At(v, 1) \o UrlDecoded(SubSeq(v, 2, Len(v)))

SizedFile(name, size, content) ==
  [present |-> TRUE, name |-> name, size |-> size, content |-> content]

NoSizedFile == [present |-> FALSE, name |-> "", size |-> 0, content |-> ""]

TwoFileForm(file, image, brand, model) ==
  [file |-> file, image |-> image, brand |-> brand, model |-> model]

\* the multipart forms of the two-file uploads
TwoFileForms ==
  {TwoFileForm(SizedFile("car.glb", MaxBytes, "glTF"), NoSizedFile, "Kia", "Carnival"),
   TwoFileForm(SizedFile("car.glb", MaxBytes + 1, "glTF+"), NoSizedFile, "Kia", "Carnival"),
   TwoFileForm(SizedFile("car.glb", 4, "glTF"), SizedFile("preview.png", MaxBytes + 1, "PNG+"),
               "Kia", "Carnival"),
   TwoFileForm(SizedFile("car.glb", 4, "glTF"), SizedFile("preview.png", 3, "PNG"), "Kia", "Carnival"),
   TwoFileForm(NoSizedFile, SizedFile("preview.png", MaxBytes, "PNG"), "!!!", ""),
   TwoFileForm(NoSizedFile, NoSizedFile, "Kia", "Carnival")}

TwoFileLoc0 == [baseDir |-> "", url |-> Null, imageUrl |-> Null]

\* `https://cdn.jsdelivr.net/gh/${repo}@${sha}/${rel}`, the branch when the
\* answer has no commit sha
commitCdnUrl(sha, rel) ==
  "https://cdn.jsdelivr.net/gh/" \o env.GH_REPO \o "@" \o (IF sha # "" THEN sha ELSE branchOf(env))
    \o "/" \o rel

\* NextResponse.json({ok: true, url, imageUrl}): undefined members are left out
twoFileBody(url, imageUrl) ==
  IF url # Null /\ imageUrl # Null THEN [ok |-> TRUE, url |-> url.v, imageUrl |-> imageUrl.v]
  ELSE IF url # Null THEN [ok |-> TRUE, url |-> url.v]
  ELSE IF imageUrl # Null THEN [ok |-> TRUE, imageUrl |-> imageUrl.v]
  ELSE [ok |-> TRUE]

\* the catch that reports the URL of the file already written
twoFileCaught_partial(q, msg) ==
  Finish(q, 400, IF q.loc.url # Null THEN [error |-> msg, url |-> q.loc.url.v]
                 ELSE [error |-> msg])

\* catch (e) { return NextResponse.json({error: e.message}, {status: 400}) }
twoFileCaught(q, msg) == Finish(q, 400, [error |-> msg])

\* what follows the file: the image, when the form has one, or the answer
twoFileAfterFile(q) ==
  LET image == q.in.image
      b64 == fileToBase64(image)
  IN  IF ~image.present THEN Finish(q, 200, twoFileBody(q.loc.url, q.loc.imageUrl))
      ELSE IF b64.thrown THEN twoFileCaught(q, b64.message)
      ELSE [q EXCEPT !.pc = "putImage"]

\* the handler up to its first fetch
TwoFilePOST(r) ==
  /\ Arrives(r)
  /\ \E form \in TwoFileForms, now \in Now :
       LET q0 == [Started("POST", [t |-> "anonymous", login |-> Null], form)
                    EXCEPT !.loc = TwoFileLoc0]
           brand == slugBare(OrDefault(form.brand, "brand"))
           model == slugBare(OrDefault(form.model, "model"))
           q == [q0 EXCEPT !.loc.baseDir = brand \o "/" \o model \o "/" \o ToString(now)]
           b64 == fileToBase64(form.file)
           next ==
             IF env.GH_TOKEN = "" \/ env.GH_REPO = ""
             THEN Finish(q0, 500,
                    [error |-> "Server not configured. Set GH_TOKEN, GH_REPO, GH_BRANCH"])
             ELSE IF ~form.file.present THEN twoFileAfterFile(q)
             ELSE IF b64.thrown THEN twoFileCaught(q, b64.message)
             ELSE [q EXCEPT !.pc = "putFile"]
       IN  /\ reqs' = [reqs EXCEPT ![r] = next]
           /\ clock' = IF env.GH_TOKEN = "" \/ env.GH_REPO = "" THEN clock ELSE now
  /\ UNCHANGED << env, config, refs, commits, prs >>

\* putToGithub of the file, then the image's turn
TwoFilePOST_putFile(r) ==
  /\ reqs[r].method = "POST" /\ reqs[r].pc = "putFile"
  /\ \E fault \in Faults :
       LET rel == reqs[r].loc.baseDir \o "/" \o safeFileName(OrDefault(reqs[r].in.file.name, "model.bin"))
           ans == RemotePutContents(UrlDecoded(encodeURIComponent(rel)), reqs[r].in.file.content,
                                    branchOf(env), "", fault)
           q == Called(reqs[r], "putToGithub", branchOf(env), rel, "", ans)
       IN  /\ Remote(ans)
           /\ reqs' = [reqs EXCEPT ![r] =
                IF ~IsOk(ans.status)
                THEN twoFileCaught(q, "GitHub PUT " \o ToString(ans.status) \o ": "
                                        \o RemoteText(ans.status))
                ELSE twoFileAfterFile([q EXCEPT !.loc.url = Str(commitCdnUrl(ans.value, rel))])]
  /\ UNCHANGED << env, config, clock >>

\* putToGithub of the image, then the answer
TwoFilePOST_putImage(r) ==
  /\ reqs[r].method = "POST" /\ reqs[r].pc = "putImage"
  /\ \E fault \in Faults :
       LET rel == reqs[r].loc.baseDir \o "/"
                    \o safeFileName(OrDefault(reqs[r].in.image.name, "preview.png"))
           ans == RemotePutContents(UrlDecoded(encodeURIComponent(rel)), reqs[r].in.image.content,
                                    branchOf(env), "", fault)
           q == Called(reqs[r], "putToGithub", branchOf(env), rel, "", ans)
       IN  /\ Remote(ans)
           /\ reqs' = [reqs EXCEPT ![r] =
                IF ~IsOk(ans.status)
                THEN twoFileCaught(q, "GitHub PUT " \o ToString(ans.status) \o ": "
                                        \o RemoteText(ans.status))
                ELSE Finish(q, 200,
                            twoFileBody(q.loc.url, Str(commitCdnUrl(ans.value, rel))))]
  /\ UNCHANGED << env, config, clock >>

TwoFileInit ==
  /\ env \in {Env("ghp_t", "acme/cars", "", ""), Env("", "acme/cars", "", "")}
  /\ config = moduleConstants(env)
  /\ clock = 1
  /\ refs = [b \in {branchOf(env)} |-> "c1"]
  /\ commits = [c \in {"c1"} |-> Tree0]
  /\ prs = << >>
  /\ reqs = [r \in Reqs |-> Idle]

TwoFileNext ==
  \E r \in Reqs : TwoFilePOST(r) \/ TwoFilePOST_putFile(r) \/ TwoFilePOST_putImage(r)

TwoFileSpec == TwoFileInit /\ [][TwoFileNext]_vars


\* ====================================================================
\* The upload endpoint on the git data API (blob, tree, commit, ref)
\* ====================================================================
\* In this deployment a commit of the repository is kept with its parent:
\* commits[sha] = [tree |-> files, parent |-> sha or ""].

\* b is a, or a descendant of a
RECURSIVE IsAncestor(_, _)
IsAncestor(a, b) ==
  \/ a = b
  \/ b \in DOMAIN commits /\ commits[b].parent # "" /\ IsAncestor(a, commits[b].parent)

\* POST /git/blobs {content, encoding}
RemoteCreateBlob(content, fault) ==
  IF fault # 0 THEN Refused(fault) ELSE Answer(201, BlobSha(content), refs, commits, prs)

\* GET /git/commits/{sha} : the commit's tree
RemoteGetCommit(sha, fault) ==
  IF fault # 0 THEN Refused(fault)
  ELSE IF sha \notin DOMAIN commits THEN Refused(404)
  ELSE Answer(200, commits[sha].tree, refs, commits, prs)

\* POST /git/trees {base_tree, tree: [{path, mode, type, sha}]} : the base
\* tree with the entry of the path set, added or replaced
RemoteCreateTree(baseTree, path, blob, fault) ==
  IF fault # 0 THEN Refused(fault)
  ELSE Answer(201, TreePut(baseTree, path, blob), refs, commits, prs)

\* POST /git/commits {message, tree, parents: [parent]}
RemoteCreateCommit(tree, parent, fault) ==
  IF fault # 0 THEN Refused(fault)
  ELSE IF parent \notin DOMAIN commits THEN Refused(422)
  ELSE Answer(201, NewSha, refs,
              [c \in (DOMAIN commits) \cup {NewSha} |->
                 IF c = NewSha THEN [tree |-> tree, parent |-> parent] ELSE commits[c]],
              prs)

\* the ref moved with force: true
RemoteUpdateRef_forced(branch, sha, fault) ==
  IF fault # 0 THEN Refused(fault)
  ELSE IF branch \notin DOMAIN refs \/ sha \notin DOMAIN commits THEN Refused(422)
  ELSE Answer(200, sha, [b \in DOMAIN refs |-> IF b = branch THEN sha ELSE refs[b]], commits, prs)

\* PATCH /git/refs/heads/{branch} {sha, force: false} : fast-forward only
RemoteUpdateRef(branch, sha, fault) ==
  IF fault # 0 THEN Refused(fault)
  ELSE IF branch \notin DOMAIN refs \/ sha \notin DOMAIN commits THEN Refused(422)
  ELSE IF ~IsAncestor(refs[branch], sha) THEN Refused(422)
  ELSE Answer(200, sha, [b \in DOMAIN refs |-> IF b = branch THEN sha ELSE refs[b]], commits, prs)

\* encodeURI on a path of letters, digits, '_', '.', '-' and '/': a blank,
\* which the sanitised path never has, would become %20
RECURSIVE encodeURI(_)
encodeURI(v) ==
  IF v = "" THEN ""
  ELSE (IF At(v, 1) = " " THEN "%20" ELSE At(v, 1)) \o encodeURI(SubSeq(v, 2, Len(v)))

\* the multipart forms of the uploads: file, brand, model
GitForms ==
  {[file |-> File("car.glb", "glTF"), brand |-> "Kia", model |-> "Carnival"],
   [file |-> File("car.glb", "glTF v2"), brand |-> "Kia", model |-> "Carnival"],
   [file |-> File("preview.JPG", "JFIF"), brand |-> "!!!", model |-> ""],
   [file |-> NoFile, brand |-> "Kia", model |-> "Carnival"]}

\* inFlight is history: the requests that were under way when this one arrived
GitLoc0 ==
  [path |-> "", baseSha |-> "", blobSha |-> "", baseTree |-> << >>, newTree |-> << >>,
   newCommit |-> "", inFlight |-> {}]

\* json({ok: false, error, details}, 500)
gitFailed(q, msg, status) ==
  Finish(q, 500, [ok |-> FALSE, error |-> msg, details |-> RemoteText(status)])

\* the handler up to its first fetch
GitPOST(r) ==
  /\ Arrives(r)
  /\ \E form \in GitForms, now \in Now :
       LET q0 == [Started("POST", [t |-> "anonymous", login |-> Null], form) EXCEPT !.loc = GitLoc0]
           brand == OrDefault(form.brand, "brand")
           model == OrDefault(form.model, "model")
           path == StripLeadingSlashes(
                     slug(brand) \o "/" \o slug(model) \o "/" \o ToString(now) \o "-"
                       \o safeName(OrDefault(form.file.name, "file.glb")))
           next ==
             IF env.GH_TOKEN = "" \/ env.GH_REPO = ""
             THEN Finish(q0, 500, ErrBody("Missing GH_TOKEN or GH_REPO env"))
             ELSE IF ~form.file.present THEN Finish(q0, 400, ErrBody("No file"))
             ELSE [q0 EXCEPT !.pc = "readRef", !.loc.path = path,
                             !.loc.inFlight = {o \in Reqs : reqs[o].pc \notin {"idle", "done"}}]
       IN  /\ reqs' = [reqs EXCEPT ![r] = next]
           /\ clock' = IF next.pc = "done" THEN clock ELSE now
  /\ UNCHANGED << env, config, refs, commits, prs >>

\* 1) the head of the branch
GitPOST_readRef(r) ==
  /\ reqs[r].method = "POST" /\ reqs[r].pc = "readRef"
  /\ \E fault \in Faults :
       LET ans == RemoteGetRef(branchOf(env), fault)
           q == Called(reqs[r], "readRef", branchOf(env), "", "", ans)
       IN  /\ Remote(ans)
           /\ reqs' = [reqs EXCEPT ![r] =
                IF ~IsOk(ans.status)
                THEN gitFailed(q, "Cannot read branch " \o branchOf(env), ans.status)
                ELSE [q EXCEPT !.pc = "createBlob", !.loc.baseSha = ans.value]]
  /\ UNCHANGED << env, config, clock >>

\* 2) the blob of the file
GitPOST_createBlob(r) ==
  /\ reqs[r].method = "POST" /\ reqs[r].pc = "createBlob"
  /\ \E fault \in Faults :
       LET ans == RemoteCreateBlob(reqs[r].in.file.content, fault)
           q == Called(reqs[r], "createBlob", "", "", "", ans)
       IN  /\ Remote(ans)
           /\ reqs' = [reqs EXCEPT ![r] =
                IF ~IsOk(ans.status) THEN gitFailed(q, "blob create failed", ans.status)
                ELSE [q EXCEPT !.pc = "readCommit", !.loc.blobSha = ans.value]]
  /\ UNCHANGED << env, config, clock >>

\* 3) the tree of the base commit
GitPOST_readCommit(r) ==
  /\ reqs[r].method = "POST" /\ reqs[r].pc = "readCommit"
  /\ \E fault \in Faults :
       LET ans == RemoteGetCommit(reqs[r].loc.baseSha, fault)
           q == Called(reqs[r], "readCommit", "", "", reqs[r].loc.baseSha, ans)
       IN  /\ Remote(ans)
           /\ reqs' = [reqs EXCEPT ![r] =
                IF ~IsOk(ans.status) THEN gitFailed(q, "read base commit failed", ans.status)
                ELSE [q EXCEPT !.pc = "createTree", !.loc.baseTree = ans.value]]
  /\ UNCHANGED << env, config, clock >>

\* 4) the new tree: the base tree with the file at the path
GitPOST_createTree(r) ==
  /\ reqs[r].method = "POST" /\ reqs[r].pc = "createTree"
  /\ \E fault \in Faults :
       LET loc == reqs[r].loc
           ans == RemoteCreateTree(loc.baseTree, loc.path, loc.blobSha, fault)
           q == Called(reqs[r], "createTree", "", loc.path, loc.blobSha, ans)
       IN  /\ Remote(ans)
           /\ reqs' = [reqs EXCEPT ![r] =
                IF ~IsOk(ans.status) THEN gitFailed(q, "tree create failed", ans.status)
                ELSE [q EXCEPT !.pc = "createCommit", !.loc.newTree = ans.value]]
  /\ UNCHANGED << env, config, clock >>

\* 5) the commit of the new tree on the base
GitPOST_createCommit(r) ==
  /\ reqs[r].method = "POST" /\ reqs[r].pc = "createCommit"
  /\ \E fault \in Faults :
       LET loc == reqs[r].loc
           ans == RemoteCreateCommit(loc.newTree, loc.baseSha, fault)
           q == Called(reqs[r], "createCommit", "", loc.path, loc.baseSha, ans)
       IN  /\ Remote(ans)
           /\ reqs' = [reqs EXCEPT ![r] =
                IF ~IsOk(ans.status) THEN gitFailed(q, "commit create failed", ans.status)
                ELSE [q EXCEPT !.pc = "moveRef", !.loc.newCommit = ans.value]]
  /\ UNCHANGED << env, config, clock >>

\* 6) the branch moved to the new commit, force: false; then the answer
GitPOST_moveRef(r) ==
  /\ reqs[r].method = "POST" /\ reqs[r].pc = "moveRef"
  /\ \E fault \in Faults :
       LET loc == reqs[r].loc
           ans == RemoteUpdateRef(branchOf(env), loc.newCommit, fault)
           q == Called(reqs[r], "moveRef", branchOf(env), "", loc.newCommit, ans)
       IN  /\ Remote(ans)
           /\ reqs' = [reqs EXCEPT ![r] =
                IF ~IsOk(ans.status) THEN gitFailed(q, "move ref failed", ans.status)
                ELSE Finish(q, 200,
                       [ok |-> TRUE,
                        url |-> "https://cdn.jsdelivr.net/gh/" \o env.GH_REPO \o "@"
                                  \o branchOf(env) \o "/" \o encodeURI(loc.path),
                        path |-> loc.path, branch |-> branchOf(env)])]
  /\ UNCHANGED << env, config, clock >>

GitInit ==
  /\ env \in {Env("ghp_t", "acme/cars", "", ""), Env("ghp_t", "", "", "")}
  /\ config = moduleConstants(env)
  /\ clock = 1
  /\ refs = [b \in {branchOf(env)} |-> "c1"]
  /\ commits = [c \in {"c1"} |-> [tree |-> Tree0, parent |-> ""]]
  /\ prs = << >>
  /\ reqs = [r \in Reqs |-> Idle]

GitNext ==
  \E r \in Reqs :
    \/ GitPOST(r) \/ GitPOST_readRef(r) \/ GitPOST_createBlob(r) \/ GitPOST_readCommit(r)
    \/ GitPOST_createTree(r) \/ GitPOST_createCommit(r) \/ GitPOST_moveRef(r)

GitDataSpec == GitInit /\ [][GitNext]_vars


\* ====================================================================
\* The health checks of the versions of the endpoint
\* ====================================================================
\* Versions of app/api/gh-upload/route.ts other than the one above: the
\* version on the git data API (part_000), the version with the optional
\* image and file (part_001) and the version for .glb files (part_002).
\* None of them has a session.  Each request is served by one version.

\* the permissions that GET /repos/{repo} reports for the token
RepoPermissions == "pull,push"

\* GET /repos/{repo} for the repository identifier as configured: an
\* identifier that is not owner/name names no repository
RemoteGetRepoOf(repo, fault) ==
  IF fault # 0 THEN Refused(fault)
  ELSE IF ~Includes(repo, "/") THEN Refused(404)
  ELSE Answer(200, RepoPermissions, refs, commits, prs)

\* the locals of a version without session: the token it was loaded with
\* and the status of the first fetch
PingLoc0 == [token |-> env.GH_TOKEN, who |-> 0]

PingStarted(endpoint, ping) ==
  [Started("GET", [t |-> "anonymous", login |-> Null], [endpoint |-> endpoint, ping |-> ping])
     EXCEPT !.loc = PingLoc0]

\* ---- part_000: GET is the diagnostics, it has no parameter
GitGET(r) ==
  /\ Arrives(r)
  /\ LET q == PingStarted("git-data", "1")
     IN  reqs' = [reqs EXCEPT ![r] =
           IF env.GH_TOKEN = "" \/ env.GH_REPO = ""
           THEN Finish(q, 500, ErrBody("Missing GH_TOKEN or GH_REPO env"))
           ELSE [q EXCEPT !.pc = "gitWho"]]
  /\ UNCHANGED << env, config, clock, refs, commits, prs >>

GitGET_who(r) ==
  /\ reqs[r].pc = "gitWho"
  /\ \E fault \in Faults :
       LET ans == RemoteGetUser(fault)
           q == Called(reqs[r], "user", "", "", "", ans)
       IN  /\ Remote(ans)
           /\ reqs' = [reqs EXCEPT ![r] = [q EXCEPT !.pc = "gitRepo", !.loc.who = ans.status]]
  /\ UNCHANGED << env, config, clock >>

GitGET_repo(r) ==
  /\ reqs[r].pc = "gitRepo"
  /\ \E fault \in Faults :
       LET ans == RemoteGetRepoOf(env.GH_REPO, fault)
           q == Called(reqs[r], "repo", "", "", "", ans)
       IN  /\ Remote(ans)
           /\ reqs' = [reqs EXCEPT ![r] =
                Finish(q, 200,
                  [ok |-> q.loc.who = 200 /\ ans.status = 200,
                   env |-> [repo |-> env.GH_REPO, branch |-> branchOf(env)],
                   status |-> [who |-> q.loc.who, repo |-> ans.status,
                               perm |-> IF ans.value # "" THEN Str(ans.value) ELSE Null]])]
  /\ UNCHANGED << env, config, clock >>

\* the ping of part_001 with the token as its auth
OptGET_leaking(r) ==
  /\ Arrives(r)
  /\ \E ping \in {"1", ""} :
       LET q == PingStarted("optional", ping)
           token == Trim(env.GH_TOKEN)
           repo == Trim(env.GH_REPO)
           branch == Trim(branchOf(env))
       IN  reqs' = [reqs EXCEPT ![r] =
             IF ping = "1"
             THEN Finish(q, 200,
                    [ok |-> token # "" /\ repo # "", repo |-> repo, branch |-> branch,
                     auth |-> IF token # "" THEN token ELSE "missing"])
             ELSE Finish(q, 200, [ok |-> TRUE])]
  /\ UNCHANGED << env, config, clock, refs, commits, prs >>

\* ---- part_001: ?ping=1 reports the configuration, without any fetch
OptGET(r) ==
  /\ Arrives(r)
  /\ \E ping \in {"1", ""} :
       LET q == PingStarted("optional", ping)
           token == Trim(env.GH_TOKEN)
           repo == Trim(env.GH_REPO)
           branch == Trim(branchOf(env))
       IN  reqs' = [reqs EXCEPT ![r] =
             IF ping = "1"
             THEN Finish(q, 200,
                    [ok |-> token # "" /\ repo # "", repo |-> repo, branch |-> branch,
                     auth |-> IF token # "" THEN "present" ELSE "missing"])
             ELSE Finish(q, 200, [ok |-> TRUE])]
  /\ UNCHANGED << env, config, clock, refs, commits, prs >>

\* ---- part_002: ?ping=1 asks the API who the token is and for the repository
GlbGET(r) ==
  /\ Arrives(r)
  /\ \E ping \in {"1", ""} :
       LET q == PingStarted("glb", ping)
       IN  reqs' = [reqs EXCEPT ![r] =
             IF ping = "" THEN Finish(q, 200, [ok |-> TRUE, endpoint |-> "POST a file to /api/gh-upload"])
             ELSE IF env.GH_TOKEN = "" \/ env.GH_REPO = ""
               THEN Finish(q, 500, ErrBody("Missing GH_TOKEN or GH_REPO env"))
             ELSE [q EXCEPT !.pc = "glbWho"]]
  /\ UNCHANGED << env, config, clock, refs, commits, prs >>

GlbGET_who(r) ==
  /\ reqs[r].pc = "glbWho"
  /\ \E fault \in Faults :
       LET ans == RemoteGetUser(fault)
           q == Called(reqs[r], "user", "", "", "", ans)
       IN  /\ Remote(ans)
           /\ reqs' = [reqs EXCEPT ![r] = [q EXCEPT !.pc = "glbRepo", !.loc.who = ans.status]]
  /\ UNCHANGED << env, config, clock >>

\* the ping of part_002 with ok depending on the head of the branch
GlbGET_repo_headBound(r) ==
  /\ reqs[r].pc = "glbRepo"
  /\ \E fault \in Faults :
       LET ans == RemoteGetRepoOf(env.GH_REPO, fault)
           q == Called(reqs[r], "repo", "", "", "", ans)
           whoOk == q.loc.who = 200
           repoOk == ans.status = 200 /\ refs[branchOf(env)] = "c1"
       IN  /\ Remote(ans)
           /\ reqs' = [reqs EXCEPT ![r] =
                Finish(q, IF whoOk /\ repoOk THEN 200 ELSE 401,
                  [ok |-> whoOk /\ repoOk, who |-> q.loc.who, repo |-> ans.status,
                   permissions |-> IF repoOk THEN Str(ans.value) ELSE Null,
                   branch |-> branchOf(env)])]
  /\ UNCHANGED << env, config, clock >>

GlbGET_repo(r) ==
  /\ reqs[r].pc = "glbRepo"
  /\ \E fault \in Faults :
       LET ans == RemoteGetRepoOf(env.GH_REPO, fault)
           q == Called(reqs[r], "repo", "", "", "", ans)
           whoOk == q.loc.who = 200
           repoOk == ans.status = 200
       IN  /\ Remote(ans)
           /\ reqs' = [reqs EXCEPT ![r] =
                Finish(q, IF whoOk /\ repoOk THEN 200 ELSE 401,
                  [ok |-> whoOk /\ repoOk, who |-> q.loc.who, repo |-> ans.status,
                   permissions |-> IF repoOk THEN Str(ans.value) ELSE Null,
                   branch |-> branchOf(env)])]
  /\ UNCHANGED << env, config, clock >>

\* /\.glb$/i.test(file.name)
isGlbName(name) ==
  Len(name) >= 4 /\ ToLowerCase(SubSeq(name, Len(name) - 3, Len(name))) = ".glb"

\* part_002 POST up to its fetch; the error for a missing file names the
\* field in quotes, which the model leaves out
GlbPOST(r) ==
  /\ Arrives(r)
  /\ \E form \in GitForms, now \in Now :
       LET q == [Started("POST", [t |-> "anonymous", login |-> Null], form) EXCEPT !.loc = Loc0]
           brand == OrDefault(form.brand, "brand")
           model == OrDefault(form.model, "model")
           relPath == "models/" \o slug(brand) \o "/" \o slug(model) \o "/" \o ToString(now)
                        \o "-" \o safeName(OrDefault(form.file.name, "model.glb"))
           next ==
             IF env.GH_TOKEN = "" \/ env.GH_REPO = ""
             THEN Finish(q, 500, ErrBody("Missing GH_TOKEN or GH_REPO env"))
             ELSE IF ~form.file.present THEN Finish(q, 400, ErrBody("No file field file"))
             ELSE IF ~isGlbName(form.file.name) THEN Finish(q, 400, ErrBody("Only .glb allowed here"))
             ELSE [q EXCEPT !.pc = "glbPut", !.loc.path = relPath, !.loc.content = form.file.content]
       IN  /\ reqs' = [reqs EXCEPT ![r] = next]
           /\ clock' = IF next.pc = "done" THEN clock ELSE now
  /\ UNCHANGED << env, config, refs, commits, prs >>

\* PUT /contents/{encodeURIComponent(relPath)}, then the answer; an identifier
\* that is not owner/name names no repository
GlbPOST_put(r) ==
  /\ reqs[r].method = "POST" /\ reqs[r].pc = "glbPut"
  /\ \E fault \in Faults :
       LET relPath == reqs[r].loc.path
           ans == IF fault = 0 /\ ~Includes(env.GH_REPO, "/") THEN Refused(404)
                  ELSE RemotePutContents(UrlDecoded(encodeURIComponent(relPath)),
                                         reqs[r].loc.content, branchOf(env), "", fault)
           q == Called(reqs[r], "put", branchOf(env), relPath, "", ans)
       IN  /\ Remote(ans)
           /\ reqs' = [reqs EXCEPT ![r] =
                IF ~IsOk(ans.status)
                THEN Finish(q, 500, ErrBody("GitHub PUT " \o ToString(ans.status) \o ": "
                                              \o RemoteText(ans.status)))
                ELSE Finish(q, 200, [ok |-> TRUE, path |-> relPath,
                                     url |-> commitCdnUrl(ans.value, relPath),
                                     commit |-> IF ans.value # "" THEN Str(ans.value) ELSE Null])]
  /\ UNCHANGED << env, config, clock >>

\* the answer of an upload has been sent: its place is free for the next
\* request
Leave(r) ==
  /\ reqs[r].method = "POST" /\ reqs[r].pc = "done"
  /\ reqs' = [reqs EXCEPT ![r] = Idle]
  /\ UNCHANGED << env, config, clock, refs, commits, prs >>

\* the tokens a deployment may be given
PingTokens == {"", "ghp_t", "github_pat_u"}

PingRepos == {"acme/cars", "acme", ""}

PingInit ==
  /\ env \in {Env(t, repo, "", "") : t \in {"", "ghp_t"}, repo \in PingRepos}
  /\ config = moduleConstants(env)
  /\ clock = 1
  /\ refs = [b \in {branchOf(env)} |-> "c1"]
  /\ commits = [c \in {"c1"} |-> Tree0]
  /\ prs = << >>
  /\ reqs = [r \in Reqs |-> Idle]

\* the health checks
PingSteps(r) ==
  \/ GET(r) \/ GET_pingWho(r) \/ GET_pingRepo(r) \/ GET_listTree(r)
  \/ GitGET(r) \/ GitGET_who(r) \/ GitGET_repo(r)
  \/ OptGET(r)
  \/ GlbGET(r) \/ GlbGET_who(r) \/ GlbGET_repo(r)

PingNext == \E r \in Reqs : PingSteps(r) \/ GlbPOST(r) \/ GlbPOST_put(r) \/ Leave(r)

PingSpec == PingInit /\ [][PingNext]_vars

\* the server is started again with another token: the module-level
\* constants are read anew; no request is under way
Redeploy ==
  /\ \A r \in Reqs : reqs[r].pc \in {"idle", "done"}
  /\ \E t \in PingTokens \ {env.GH_TOKEN} :
       /\ env' = [env EXCEPT !.GH_TOKEN = t]
       /\ config' = moduleConstants(env')
  /\ UNCHANGED << clock, refs, commits, prs, reqs >>

RotationNext == (\E r \in Reqs : PingSteps(r)) \/ Redeploy

RotationSpec == PingInit /\ [][RotationNext]_vars


\* ====================================================================
\* The catalog page: the cards built from the listings of the server
\* ====================================================================
\* Number(m[3]) for a run of decimal digits
RECURSIVE NumberOf(_)
NumberOf(d) ==
  IF d = "" THEN 0
  ELSE NumberOf(SubSeq(d, 1, Len(d) - 1)) * 10 + (IndexOf(DigitChars, At(d, Len(d))) - 1)

\* (\d+) : the length of the run of digits at the start of s
RECURSIVE DigitRun(_)
DigitRun(s) ==
  IF s # "" /\ Includes(DigitChars, At(s, 1)) THEN 1 + DigitRun(SubSeq(s, 2, Len(s))) ELSE 0

\* p.match(/^models\/([^/]+)\/([^/]+)\/(\d+)-(.+\.glb)$/i), for images with
\* (png|jpg|jpeg|webp): brand, model, ts and filename of a path, or no match
parse(kind, p) ==
  LET segs == Split(p, "/")
      exts == IF kind = "models" THEN {"glb"} ELSE {"png", "jpg", "jpeg", "webp"}
      rest == SubSeq(p, Len(segs[1]) + Len(segs[2]) + Len(segs[3]) + 4, Len(p))
      d == DigitRun(rest)
      filename == SubSeq(rest, d + 2, Len(rest))
      low == ToLowerCase(filename)
  IN  IF /\ Len(segs) >= 4
         /\ ToLowerCase(segs[1]) = kind /\ segs[2] # "" /\ segs[3] # ""
         /\ d >= 1 /\ Len(rest) > d + 1 /\ At(rest, d + 1) = "-"
         /\ \E e \in exts :
              Len(low) > Len(e) + 1 /\ SubSeq(low, Len(low) - Len(e), Len(low)) = "." \o e
      THEN [matched |-> TRUE, brand |-> segs[2], model |-> segs[3],
            ts |-> NumberOf(SubSeq(rest, 1, d)), filename |-> filename]
      ELSE [matched |-> FALSE]

\* for (const im of images) { ...; latestImageByKey.set(key, im.url) } : the
\* map after the loop; both branches of the test on prev set the entry
RECURSIVE latestImageByKey(_)
latestImageByKey(images) ==
  IF images = << >> THEN [k \in {} |-> ""]
  ELSE LET before == latestImageByKey(SubSeq(images, 1, Len(images) - 1))
           im == images[Len(images)]
           meta == parse("images", im.path)
           key == meta.brand \o "/" \o meta.model
       IN  IF ~meta.matched THEN before
           ELSE [k \in (DOMAIN before) \cup {key} |-> IF k = key THEN im.url ELSE before[k]]

\* .replace(/[_-]+/g, ' ') : every run of '_' and '-' becomes one blank
RECURSIVE Spaced(_, _)
Spaced(v, inRun) ==
  IF v = "" THEN ""
  ELSE IF At(v, 1) \in {"_", "-"}
    THEN (IF inRun THEN "" ELSE " ") \o Spaced(SubSeq(v, 2, Len(v)), TRUE)
  ELSE At(v, 1) \o Spaced(SubSeq(v, 2, Len(v)), FALSE)

\* meta.filename.replace(/\.glb$/i, '').replace(/[_-]+/g, ' ').trim() || 'Model'
titleOf(filename) ==
  LET n == Len(filename)
      base == IF n >= 4 /\ ToLowerCase(SubSeq(filename, n - 3, n)) = ".glb"
              THEN SubSeq(filename, 1, n - 4) ELSE filename
      title == Trim(Spaced(base, FALSE))
  IN  IF title = "" THEN "Model" ELSE title

\* for (const mo of models) { ...; items.push({...}) }
RECURSIVE catalogItems(_, _)
catalogItems(models, latest) ==
  IF models = << >> THEN << >>
  ELSE LET mo == Head(models)
           meta == parse("models", mo.path)
           key == meta.brand \o "/" \o meta.model
       IN  (IF ~meta.matched THEN << >>
            ELSE << [id |-> mo.path, brand |-> meta.brand, model |-> meta.model,
                     title |-> titleOf(meta.filename), subsystem |-> "interior",
                     image |-> IF key \in DOMAIN latest THEN Str(latest[key]) ELSE Null,
                     download |-> mo.url] >>)
             \o catalogItems(Tail(models), latest)

\* what the server answers to /api/gh-upload?list=1&prefix=... of a caller
\* on the allow-list
listAnswer(prefix, fault) ==
  LET ans == RemoteGetTree(GH_BRANCH, fault)
  IN  IF ~IsOk(ans.status) THEN ErrBody("List failed: " \o ToString(ans.status))
      ELSE [ok |-> TRUE, repo |-> GH_REPO, branch |-> GH_BRANCH,
            items |-> listItems(ans.value, StripLeadingSlashes(prefix))]

\* the files the target branch may hold when the page is opened
CatalogPaths ==
  {"images/kia/carnival/1-a.png", "images/kia/carnival/2-b.JPG", "images/kia/rio/1-c.webp",
   "images/kia/carnival/3-e.gif", "images/notes.txt",
   "models/kia/carnival/1-my_car.glb", "models/kia/rio/2-car.glb"}

CatalogLoc0 == [models |-> << >>, images |-> << >>, errRemote |-> "", remoteItems |-> << >>]

\* the page is mounted: the effect starts and asks for the two listings
CatalogApp(r) ==
  /\ Arrives(r)
  /\ reqs' = [reqs EXCEPT ![r] = [Idle EXCEPT !.method = "CatalogApp", !.pc = "lists",
                                              !.loc = CatalogLoc0]]
  /\ UNCHANGED << env, config, clock, refs, commits, prs >>

\* the two listings are in: an error is shown, or the cards are built
CatalogApp_lists(r) ==
  /\ reqs[r].method = "CatalogApp" /\ reqs[r].pc = "lists"
  /\ \E fm \in Faults, fi \in Faults :
       LET mj == listAnswer("models", fm)
           ij == listAnswer("images", fi)
           q == [reqs[r] EXCEPT !.pc = "done"]
       IN  reqs' = [reqs EXCEPT ![r] =
             IF ~mj.ok THEN [q EXCEPT !.loc.errRemote = "models list: " \o mj.error]
             ELSE IF ~ij.ok THEN [q EXCEPT !.loc.errRemote = "images list: " \o ij.error]
             ELSE [q EXCEPT !.loc.models = mj.items, !.loc.images = ij.items,
                            !.loc.remoteItems = catalogItems(mj.items, latestImageByKey(ij.items))]]
  /\ UNCHANGED << env, config, clock, refs, commits, prs >>

CatalogInit ==
  /\ env = Env("ghp_t", "acme/cars", "", "")
  /\ config = moduleConstants(env)
  /\ clock = 1
  /\ refs = [b \in {branchOf(env)} |-> "c1"]
  /\ \E held \in SUBSET CatalogPaths : commits = [c \in {"c1"} |-> [p \in held |-> BlobSha(p)]]
  /\ prs = << >>
  /\ reqs = [r \in Reqs |-> Idle]

CatalogNext == \E r \in Reqs : CatalogApp(r) \/ CatalogApp_lists(r)

CatalogSpec == CatalogInit /\ [][CatalogNext]_vars


\* ====================================================================
\* Properties
\* ====================================================================
\* from position k leftwards (rightwards) there are only blanks up to a
\* comma or the end of the text
RECURSIVE BlankToLeft(_, _)
BlankToLeft(raw, k) ==
  k = 0 \/ At(raw, k) = "," \/ (At(raw, k) = " " /\ BlankToLeft(raw, k - 1))

RECURSIVE BlankToRight(_, _)
BlankToRight(raw, k) ==
  k > Len(raw) \/ At(raw, k) = "," \/ (At(raw, k) = " " /\ BlankToRight(raw, k + 1))

\* the login l is one of the comma-separated entries of ALLOWED_UPLOADERS,
\* blanks around it ignored
Listed(l, raw) ==
  \E i \in 1..Len(raw) :
    /\ i + Len(l) - 1 <= Len(raw)
    /\ SubSeq(raw, i, i + Len(l) - 1) = l
    /\ BlankToLeft(raw, i - 1)
    /\ BlankToRight(raw, i + Len(l))

\* no entry is configured: nothing but commas and blanks
NothingListed(raw) == \A k \in 1..Len(raw) : At(raw, k) \in {",", " "}

HasLogin(caller) == caller.t = "profile" /\ caller.login.t = "str" /\ caller.login.v # ""

Permitted(caller) ==
  /\ HasLogin(caller)
  /\ NothingListed(env.ALLOWED_UPLOADERS) \/ Listed(caller.login.v, env.ALLOWED_UPLOADERS)

\* the operations behind the gate: upload, delete and listing
Gated(q) ==
  \/ q.method \in {"POST", "DELETE"}
  \/ q.method = "GET" /\ q.in.ping = "" /\ q.in.list # ""

Ops(q) == {q.log[i].op : i \in 1..Len(q.log)}

\* C1: with the configuration present, an upload, a listing or a delete of a
\* caller who is unauthenticated or not on the allow-list is answered
\* 403 Forbidden, and the request has issued no call to the GitHub API.
C1_ForbiddenBeforeRemote ==
  \A r \in Reqs :
    (reqs[r].pc # "idle" /\ ~badEnv /\ Gated(reqs[r]) /\ ~Permitted(reqs[r].caller))
      => /\ reqs[r].pc = "done"
         /\ reqs[r].resp = [status |-> 403, body |-> [ok |-> FALSE, error |-> "Forbidden"]]
         /\ reqs[r].log = << >>

\* each of the three gated operations was refused to a caller off the list
C1_Witness ==
  /\ ~NothingListed(env.ALLOWED_UPLOADERS)
  /\ \E r \in Reqs :
       /\ reqs[r].method = "DELETE"
       /\ reqs[r].caller.login = Str("mallory")
       /\ reqs[r].resp.status = 403
  /\ \E r \in Reqs :
       /\ reqs[r].method = "POST"
       /\ reqs[r].caller.t = "anonymous"
       /\ reqs[r].resp.status = 403

\* C2: requireAuthAllowed yields allowed = true exactly when the session
\* carries a non-empty login and the allow-list is empty or contains it; a
\* session without a login is denied whatever the allow-list holds.
C2_AllowedIffLoginOnList ==
  \A r \in Reqs :
    reqs[r].loc.sessionRead
      => /\ reqs[r].loc.allowed <=> Permitted(reqs[r].caller)
         /\ reqs[r].loc.login = Null => ~reqs[r].loc.allowed
         /\ ~HasLogin(reqs[r].caller) => reqs[r].loc.login = Null

\* a listed login was let in under a non-empty allow-list, and a session
\* without a login was denied under it
C2_Witness ==
  /\ ~NothingListed(env.ALLOWED_UPLOADERS)
  /\ \E r \in Reqs :
       /\ reqs[r].loc.sessionRead /\ reqs[r].loc.allowed
       /\ reqs[r].caller.login = Str("alice")
  /\ \E r \in Reqs :
       /\ reqs[r].loc.sessionRead /\ ~reqs[r].loc.allowed
       /\ reqs[r].caller = [t |-> "profile", login |-> Null]


Contains(s, sub) == \E i \in 1..(Len(s) - Len(sub) + 1) : SubSeq(s, i, i + Len(sub) - 1) = sub

\* an upload on the review path: asked for by the form or forced by the flag
ReviewUpload(q) == q.method = "POST" /\ (q.in.pr = "1" \/ env.REQUIRE_PR = "1")

DirectUpload(q) == q.method = "POST" /\ q.in.pr # "1" /\ env.REQUIRE_PR # "1"

Succeeded(q) == q.pc = "done" /\ q.resp.body.ok

ReviewUploadOps == << "getHeadSha", "createBranch", "createOrUpdateFile", "openPr" >>

\* the tree t is the tree base with the one file path added
OneFileAdded(t, base, path, blob) ==
  /\ path \notin DOMAIN base
  /\ DOMAIN t = (DOMAIN base) \cup {path}
  /\ t[path] = blob
  /\ \A p \in DOMAIN base : t[p] = base[p]

\* C3: a review-path upload calls getHeadSha(target), createBranch(head,
\* review branch), createOrUpdateFile(path, review branch), openPr(review ->
\* target) in this order, each only after the one before succeeded; the
\* branch is created from the sha the first call returned, and when the pull
\* request is opened the review branch holds that head plus the one file.
C3_ReviewUploadOrder ==
  \A r \in Reqs :
    ReviewUpload(reqs[r]) =>
      LET log == reqs[r].log
      IN  /\ Len(log) <= Len(ReviewUploadOps)
          /\ \A i \in 1..Len(log) : log[i].op = ReviewUploadOps[i]
          /\ \A i \in 1..(Len(log) - 1) : IsOk(log[i].status)
          /\ Len(log) >= 1 => log[1].branch = GH_BRANCH
          /\ Len(log) >= 2 => log[2].sha = log[1].ret /\ log[2].branch # GH_BRANCH
          /\ Len(log) >= 3 => log[3].branch = log[2].branch /\ log[3].path = reqs[r].loc.path
          /\ Len(log) >= 4 =>
               /\ log[4].branch = log[2].branch /\ log[4].base = GH_BRANCH
               /\ OneFileAdded(commits[refs[log[2].branch]], commits[log[1].ret],
                               log[3].path, BlobSha(reqs[r].in.file.content))
          /\ (reqs[r].pc # "done" /\ reqs[r].loc.path # "") => Len(log) < Len(ReviewUploadOps)

\* a caller-requested review upload went through all four calls
C3_Witness ==
  \E r \in Reqs :
    /\ ReviewUpload(reqs[r]) /\ env.REQUIRE_PR = ""
    /\ Len(reqs[r].log) = 4 /\ IsOk(reqs[r].log[4].status)

\* C4: a review upload that returns success has made a branch-creation and
\* a pull-request call, answers with the pull request's url, and its public
\* url names the target branch as ref, not the review branch.
C4_ReviewUploadAnswer ==
  \A r \in Reqs :
    (ReviewUpload(reqs[r]) /\ Succeeded(reqs[r])) =>
      LET log == reqs[r].log
          body == reqs[r].resp.body
      IN  /\ \E i \in 1..Len(log) : log[i].op = "createBranch" /\ IsOk(log[i].status)
          /\ \E i \in 1..Len(log) :
               /\ log[i].op = "openPr" /\ IsOk(log[i].status)
               /\ "pr" \in DOMAIN body /\ body.pr = log[i].ret /\ body.pr # ""
               /\ ~Contains(body.url, log[i].branch)
               /\ \E k \in 1..Len(prs) : prs[k].head = log[i].branch /\ prs[k].base = GH_BRANCH
          /\ body.url = "https://cdn.jsdelivr.net/gh/" \o env.GH_REPO \o "@" \o GH_BRANCH
                          \o "/" \o body.path
          /\ reqs[r].resp.status = 200

\* an upload forced onto the review path by the flag returned success
C4_Witness ==
  \E r \in Reqs :
    /\ ReviewUpload(reqs[r]) /\ Succeeded(reqs[r])
    /\ env.REQUIRE_PR = "1" /\ reqs[r].in.pr = ""

\* C5: a direct upload makes one remote call, the write of its path on the
\* target branch, and neither a branch nor a pull request; on success the
\* answer has no pull request url and its public url is
\* https://cdn.jsdelivr.net/gh/{owner}/{repo}@{target}/{path} of that path.
C5_DirectUpload ==
  \A r \in Reqs :
    DirectUpload(reqs[r]) =>
      LET log == reqs[r].log
          body == reqs[r].resp.body
      IN  /\ Len(log) <= 1
          /\ Len(log) = 1 =>
               /\ log[1].op = "createOrUpdateFile" /\ log[1].branch = GH_BRANCH
               /\ log[1].path = reqs[r].loc.path
               /\ reqs[r].pc = "done"
          /\ Succeeded(reqs[r]) =>
               /\ Len(log) = 1 /\ IsOk(log[1].status)
               /\ "pr" \notin DOMAIN body
               /\ body.path = log[1].path
               /\ body.url = "https://cdn.jsdelivr.net/gh/" \o OWNER \o "/" \o REPO \o "@"
                               \o GH_BRANCH \o "/" \o log[1].path

\* a direct upload of an image returned success
C5_Witness ==
  \E r \in Reqs :
    /\ DirectUpload(reqs[r]) /\ Succeeded(reqs[r])
    /\ reqs[r].in.kind = "image"
    /\ reqs[r].log[1].path \in DOMAIN commits[refs[GH_BRANCH]]

\* C6: when a remote call of an upload or a delete fails, it is the last
\* call of the request and the answer is an error, never ok = true; a review
\* branch the request created is still there afterwards.
C6_FailureAborts ==
  \A r \in Reqs :
    reqs[r].method \in {"POST", "DELETE"} =>
      LET log == reqs[r].log
      IN  \A i \in 1..Len(log) :
            /\ ~IsOk(log[i].status) =>
                 /\ i = Len(log)
                 /\ reqs[r].pc = "done"
                 /\ ~reqs[r].resp.body.ok
                 /\ reqs[r].resp.status >= 400
            /\ (log[i].op = "createBranch" /\ IsOk(log[i].status)) =>
                 /\ log[i].branch \in DOMAIN refs
                 /\ \A j \in 1..Len(log) : log[j].op \in
                      {"getHeadSha", "createBranch", "createOrUpdateFile", "getFileSha",
                       "deleteFile", "openPr"}

\* a review-path request failed after it had created its branch
C6_Witness ==
  \E r \in Reqs :
    LET log == reqs[r].log
    IN  /\ reqs[r].method = "POST" /\ reqs[r].pc = "done"
        /\ Len(log) = 3 /\ IsOk(log[2].status) /\ ~IsOk(log[3].status)
        /\ log[2].branch \in DOMAIN refs

\* C7: with REQUIRE_PR set, no upload and no delete writes or deletes a
\* file on the target branch: every mutation addresses a review branch that
\* the same request created, and the target branch keeps its head.
C7_RequirePrNeverTouchesTarget ==
  env.REQUIRE_PR = "1" =>
    /\ \A r \in Reqs :
         LET log == reqs[r].log
         IN  \A i \in 1..Len(log) :
               log[i].op \in {"createOrUpdateFile", "deleteFile"} =>
                 /\ log[i].branch # GH_BRANCH
                 /\ \E j \in 1..(i - 1) :
                      /\ log[j].op = "createBranch" /\ IsOk(log[j].status)
                      /\ log[j].branch = log[i].branch
    /\ refs[GH_BRANCH] = "c1"

\* under the flag, an upload and a delete have both committed on their
\* review branches
C7_Witness ==
  /\ env.REQUIRE_PR = "1"
  /\ \E r \in Reqs : \E i \in 1..Len(reqs[r].log) :
       reqs[r].log[i].op = "createOrUpdateFile" /\ IsOk(reqs[r].log[i].status)
  /\ \E r \in Reqs : \E i \in 1..Len(reqs[r].log) :
       reqs[r].log[i].op = "deleteFile" /\ IsOk(reqs[r].log[i].status)


UnderRoots(path) == StartsWith(path, "models/") \/ StartsWith(path, "images/")

\* a delete of a permitted caller that the configuration does not stop
PermittedDelete(q) ==
  q.method = "DELETE" /\ q.pc # "idle" /\ ~badEnv /\ Permitted(q.caller)

\* C8 (as claimed): a delete whose path does not start with models/ or
\* images/ is refused (a 4xx answer, ok = false) and issues no remote call.
\* The handler's refusal of a path is 400 'Only models/ or images/ allowed'.
C8_OutsideRootsRefused ==
  \A r \in Reqs :
    (PermittedDelete(reqs[r]) /\ ~UnderRoots(reqs[r].in.path)) =>
      /\ reqs[r].pc = "done"
      /\ reqs[r].resp.status \in 400..499 /\ ~reqs[r].resp.body.ok
      /\ reqs[r].log = << >>

\* C9 (as claimed): without the review flag, a permitted delete of a path
\* under models/ or images/ passes the root validation, reads the blob sha
\* of the path on the target branch, calls deleteFile for the path on the
\* target branch with that sha, and on success answers {deleted: path}.
C9_DirectDelete ==
  \A r \in Reqs :
    (PermittedDelete(reqs[r]) /\ env.REQUIRE_PR # "1" /\ UnderRoots(reqs[r].in.path)) =>
      LET log == reqs[r].log
          path == reqs[r].in.path
      IN  /\ ~(reqs[r].pc = "done" /\ log = << >>)
          /\ Len(log) >= 1 =>
               log[1].op = "getFileSha" /\ log[1].path = path /\ log[1].branch = GH_BRANCH
          /\ Len(log) >= 2 =>
               /\ log[2].op = "deleteFile" /\ log[2].path = path
               /\ log[2].branch = GH_BRANCH /\ log[2].sha = log[1].ret
          /\ Succeeded(reqs[r]) => reqs[r].resp.body = [ok |-> TRUE, deleted |-> path]

\* the first call of a delete, the metadata read on the target branch, failed
MetaReadFailed(q) ==
  /\ q.method = "DELETE" /\ Len(q.log) >= 1
  /\ q.log[1].op = "getFileSha" /\ q.log[1].branch = GH_BRANCH /\ ~IsOk(q.log[1].status)

NoMutationCalls(q) == Ops(q) \cap {"deleteFile", "createBranch", "openPr"} = {}

ReviewDeleteOps ==
  << "getFileSha", "getHeadSha", "createBranch", "getFileSha", "deleteFile", "openPr" >>

\* C11: under the review flag a delete calls, in this order, the metadata
\* read on the target branch, getHeadSha(target), createBranch(head, review
\* branch), the metadata read on the review branch, deleteFile on the review
\* branch with the sha the second read returned, openPr(review -> target),
\* each only after the one before succeeded; on success it answers
\* {deleted: path, pr: url of the pull request}, and the file is still on
\* the target branch, with the blob the first read saw.
C11_ReviewDeleteOrder ==
  \A r \in Reqs :
    (reqs[r].method = "DELETE" /\ env.REQUIRE_PR = "1") =>
      LET log == reqs[r].log
          path == reqs[r].in.path
      IN  /\ Len(log) <= Len(ReviewDeleteOps)
          /\ \A i \in 1..Len(log) : log[i].op = ReviewDeleteOps[i]
          /\ \A i \in 1..(Len(log) - 1) : IsOk(log[i].status)
          /\ Len(log) >= 1 => log[1].branch = GH_BRANCH /\ log[1].path = path
          /\ Len(log) >= 2 => log[2].branch = GH_BRANCH
          /\ Len(log) >= 3 => log[3].sha = log[2].ret /\ log[3].branch # GH_BRANCH
          /\ Len(log) >= 4 => log[4].branch = log[3].branch /\ log[4].path = path
          /\ Len(log) >= 5 =>
               /\ log[5].branch = log[3].branch /\ log[5].path = path
               /\ log[5].sha = log[4].ret
          /\ Len(log) >= 6 => log[6].branch = log[3].branch /\ log[6].base = GH_BRANCH
          /\ Succeeded(reqs[r]) =>
               /\ Len(log) = 6 /\ IsOk(log[6].status)
               /\ reqs[r].resp = [status |-> 200,
                                  body |-> [ok |-> TRUE, deleted |-> path, pr |-> log[6].ret]]
               /\ log[6].ret # ""
               /\ path \in DOMAIN commits[refs[GH_BRANCH]]
               /\ commits[refs[GH_BRANCH]][path] = log[1].ret
               /\ path \notin DOMAIN commits[refs[log[3].branch]]

\* a review-path delete went through its six calls and returned success
C11_Witness ==
  \E r \in Reqs :
    /\ reqs[r].method = "DELETE" /\ env.REQUIRE_PR = "1"
    /\ Succeeded(reqs[r]) /\ Len(reqs[r].log) = 6
    /\ "pr" \in DOMAIN reqs[r].resp.body


\* the category of an upload: the kind field, model when it is left empty
CategoryOf(form) == IF form.kind = "" THEN "model" ELSE form.kind

\* the position of the last dot of a name, 0 when it has none
LastDot(name) ==
  LET dots == {i \in 1..Len(name) : At(name, i) = "."}
  IN  IF dots = {} THEN 0 ELSE CHOOSE i \in dots : \A j \in dots : j <= i

\* the extension of a file name: what follows its last dot (the whole name
\* when it has no dot), in lower case
ExtensionOf(name) == ToLowerCase(SubSeq(name, LastDot(name) + 1, Len(name)))

AllowedExtensions(category) ==
  IF category = "model" THEN {"glb"}
  ELSE IF category = "image" THEN {"png", "jpg", "jpeg", "webp"}
  ELSE {}

\* an upload with a file of category model or image whose extension is not
\* on the list of the category
BadExtension(q) ==
  /\ q.method = "POST" /\ q.pc # "idle" /\ q.in.file.present
  /\ CategoryOf(q.in) \in {"model", "image"}
  /\ ExtensionOf(q.in.file.name) \notin AllowedExtensions(CategoryOf(q.in))

EndsWith(s, suffix) ==
  Len(suffix) <= Len(s) /\ SubSeq(s, Len(s) - Len(suffix) + 1, Len(s)) = suffix

\* the root of a path and its extension (letter case ignored) belong to the
\* same category
RootAgreesWithExtension(path) ==
  LET p == ToLowerCase(path)
  IN  \/ StartsWith(p, "models/") /\ EndsWith(p, ".glb")
      \/ StartsWith(p, "images/") /\ \E e \in {".png", ".jpg", ".jpeg", ".webp"} : EndsWith(p, e)

\* C13 (as claimed): every file write of an upload, whatever the category
\* field holds, addresses a path whose root and extension agree (models/
\* with .glb, images/ with .png, .jpg, .jpeg or .webp), and an upload whose
\* category is neither model nor image issues no write.
C13_WritesAgreeWithCategory ==
  \A r \in Reqs :
    reqs[r].method = "POST" =>
      \A i \in 1..Len(reqs[r].log) :
        reqs[r].log[i].op = "createOrUpdateFile" =>
          /\ CategoryOf(reqs[r].in) \in {"model", "image"}
          /\ RootAgreesWithExtension(reqs[r].log[i].path)


\* what the normalisation of the namespace makes of the fields of the forms
NormalizedAs ==
  ("Kia" :> "kia") @@ ("Carnival" :> "carnival") @@ ("Land Rover" :> "land-rover")
    @@ ("!!!" :> "x") @@ ("" :> "brand")

\* what the sanitising of the file name makes of the names of the forms
SanitizedAs == ("preview.JPG" :> "preview.JPG") @@ ("my car(1).glb" :> "my_car_1_.glb")

PlacedBy(endpoint) == {r \in Reqs : reqs[r].pc = "placed" /\ reqs[r].endpoint = endpoint}

\* C15: the storage path of an upload is root/namespace1/namespace2/
\* timestamp-filename, root models or images by category, the namespaces
\* the normalised fields and the file name sanitised; two uploads of the
\* same category, fields and file name have the same path when their
\* timestamps are equal and different paths when they differ; the image
\* preview.JPG of (Kia, Carnival) at time T is at
\* images/kia/carnival/T-preview.JPG.
C15_StoragePath ==
  /\ \A r \in PlacedBy("gh-upload") :
       LET q == reqs[r]
           seg == Split(q.path, "/")
       IN  /\ Len(seg) = 4
           /\ seg[1] = (IF q.in.kind = "model" THEN "models" ELSE "images")
           /\ seg[2] = NormalizedAs[q.in.brand]
           /\ seg[3] = NormalizedAs[q.in.model]
           /\ seg[4] = ToString(q.now) \o "-" \o SanitizedAs[q.in.name]
           /\ (q.in = [kind |-> "image", brand |-> "Kia", model |-> "Carnival",
                       name |-> "preview.JPG"])
                => q.path = "images/kia/carnival/" \o ToString(q.now) \o "-preview.JPG"
  /\ \A r1, r2 \in PlacedBy("gh-upload") :
       reqs[r1].in = reqs[r2].in => (reqs[r1].path = reqs[r2].path <=> reqs[r1].now = reqs[r2].now)

\* the same form was placed at two different times, and the image of
\* scenario A was placed
C15_Witness ==
  /\ \E r1, r2 \in PlacedBy("gh-upload") :
       reqs[r1].in = reqs[r2].in /\ reqs[r1].now # reqs[r2].now
  /\ \E r \in PlacedBy("gh-upload") :
       reqs[r].in = [kind |-> "image", brand |-> "Kia", model |-> "Carnival", name |-> "preview.JPG"]


\* a field value that has characters, none of them a letter or a digit
OnlyDisallowed(v) == v # "" /\ \A i \in 1..Len(v) : ~IsAlnum(At(v, i))

\* C16 (as claimed): for a classification field made of disallowed
\* characters only, the namespace segment of the path is the placeholder x,
\* and no path that an upload endpoint derives has an empty segment.
C16_NoEmptySegment ==
  \A r \in Reqs :
    reqs[r].pc = "placed" =>
      LET seg == Split(reqs[r].path, "/")
          first == IF reqs[r].endpoint = "gh-upload" THEN 2 ELSE 1
      IN  /\ \A i \in 1..Len(seg) : seg[i] # ""
          /\ OnlyDisallowed(reqs[r].in.brand) => seg[first] = "x"


\* the step in which the listing request r gets the tree and answers with items
ListAnswered(r) ==
  reqs[r].pc = "listTree" /\ reqs'[r].pc = "done" /\ reqs'[r].resp.body.ok

\* the prefix of a listing request, the slashes in front of it dropped
PrefixOf(q) ==
  LET raw == q.in.prefix
      n == Cardinality({i \in 1..Len(raw) : \A j \in 1..i : At(raw, j) = "/"})
  IN  SubSeq(raw, n + 1, Len(raw))

\* the prefix of a listing covers the path
Covers(prefix, path) == prefix = "" \/ StartsWith(path, prefix \o "/")

ListedOnce(items, path) == Cardinality({i \in 1..Len(items) : items[i].path = path}) = 1

\* C19 (as claimed): once an upload has returned success with path P, a
\* listing of a prefix that covers P returns exactly one item with path P.
C19_UploadThenListed ==
  [][\A r \in Reqs :
       ListAnswered(r) =>
         \A u \in Reqs :
           (reqs[u].method = "POST" /\ Succeeded(reqs[u])
              /\ Covers(PrefixOf(reqs[r]), reqs[u].resp.body.path))
             => ListedOnce(reqs'[r].resp.body.items, reqs[u].resp.body.path)]_vars

\* C19 (amended): once a direct upload, one without pull request, has
\* returned success with path P, a listing of a prefix that covers P returns
\* exactly one item with path P, and the item carries the public url the
\* upload returned.
C19_DirectUploadThenListed ==
  [][\A r \in Reqs :
       ListAnswered(r) =>
         \A u \in Reqs :
           (DirectUpload(reqs[u]) /\ Succeeded(reqs[u])
              /\ Covers(PrefixOf(reqs[r]), reqs[u].resp.body.path))
             => LET items == reqs'[r].resp.body.items
                    P == reqs[u].resp.body.path
                IN  /\ ListedOnce(items, P)
                    /\ \A i \in 1..Len(items) :
                         items[i].path = P => items[i].url = reqs[u].resp.body.url]_vars

\* a direct upload returned its path, and a listing of the prefix models/kia
\* has an item with that path
C19_Witness ==
  \E u, r \in Reqs :
    /\ DirectUpload(reqs[u]) /\ Succeeded(reqs[u])
    /\ reqs[r].method = "GET" /\ reqs[r].in.prefix = "/models/kia" /\ Succeeded(reqs[r])
    /\ \E i \in 1..Len(reqs[r].resp.body.items) :
         reqs[r].resp.body.items[i].path = reqs[u].resp.body.path

Min(a, b) == IF a < b THEN a ELSE b

\* C20 (as claimed): a listing returns exactly the blobs of the target
\* branch whose path starts with models/ or images/ and, when a prefix is
\* given, with the prefix: greatest path first, the first 200 of them; no
\* path outside the two roots and no directory is among the items.
C20_ListExactlyCategoryBlobs ==
  [][\A r \in Reqs :
       ListAnswered(r) =>
         LET items == reqs'[r].resp.body.items
             prefix == PrefixOf(reqs[r])
             tree == commits[refs[GH_BRANCH]]
             expected == {p \in DOMAIN tree : UnderRoots(p) /\ Covers(prefix, p)}
             listed == {items[i].path : i \in 1..Len(items)}
         IN  /\ listed \subseteq expected
             /\ Len(items) = Min(Cardinality(expected), 200)
             /\ \A i, j \in 1..Len(items) : i < j => StrLess(items[j].path, items[i].path)
             /\ \A p \in expected \ listed : \A q \in listed : StrLess(p, q)]_vars


\* the files of a two-file form
FilesOf(form) == {f \in {form.file, form.image} : f.present}

\* C14 (as claimed): an upload whose files are exactly at the size ceiling
\* is not refused for its size, and an upload with a file one byte over the
\* ceiling is refused with 413 before any remote call.
C14_SizeCeiling ==
  \A r \in Reqs :
    (reqs[r].method = "POST" /\ env.GH_TOKEN # "" /\ env.GH_REPO # "") =>
      /\ (\E f \in FilesOf(reqs[r].in) : f.size = MaxBytes + 1) =>
           /\ reqs[r].pc = "done"
           /\ reqs[r].resp.status = 413
           /\ reqs[r].log = << >>
      /\ (\A f \in FilesOf(reqs[r].in) : f.size <= MaxBytes) =>
           (reqs[r].pc = "done" => reqs[r].resp.status # 413)


\* the files of the target branch in the deployment on the git data API
GitTargetTree == commits[refs[branchOf(env)]].tree

GitTargetTreeNext == commits'[refs'[branchOf(env)]].tree

\* C17 (as claimed): no upload replaces the content stored at a path that
\* is already on the target branch: from one state to the next, a path of
\* the target branch that stays keeps its blob.
C17_AppendOnly ==
  [][\A p \in DOMAIN GitTargetTree :
       p \in DOMAIN GitTargetTreeNext => GitTargetTreeNext[p] = GitTargetTree[p]]_vars

\* C18 (as claimed): of two uploads that overlap in time and derive the same
\* storage path, at most one returns success.
C18_CollisionSurfaced ==
  \A a, b \in Reqs :
    (/\ a # b
     /\ reqs[a].method = "POST" /\ reqs[b].method = "POST"
     /\ reqs[a].pc # "idle" /\ reqs[b].pc # "idle"
     /\ reqs[a].loc.path # "" /\ reqs[a].loc.path = reqs[b].loc.path
     /\ a \in reqs[b].loc.inFlight)
      => ~(Succeeded(reqs[a]) /\ Succeeded(reqs[b]))


\* the last call of a request to the GitHub API
LastCall(q) == q.log[Len(q.log)]

\* an upload that the configuration lets in
UploadServed(q) == q.method = "POST" /\ q.pc = "done" /\ ~badEnv

\* C25 (as claimed): an upload maps its failures to statuses: a caller the
\* policy denies gets 403; a missing file or an unsupported format gets 400;
\* a call that the GitHub API rejects for the credential (401) gets 401 and
\* never 500; any other failed call gets 500 with the status and the text of
\* the remote answer in the message.
C25_UploadStatusMapping ==
  \A r \in Reqs :
    UploadServed(reqs[r]) =>
      LET q == reqs[r]
      IN  /\ ~Permitted(q.caller) => q.resp.status = 403
          /\ (Permitted(q.caller) /\ (~q.in.file.present \/ BadExtension(q))) => q.resp.status = 400
          /\ (q.log # << >> /\ LastCall(q).status = 401) => q.resp.status = 401
          /\ (q.log # << >> /\ ~IsOk(LastCall(q).status) /\ LastCall(q).status # 401) =>
               /\ q.resp.status = 500
               /\ Contains(q.resp.body.error, ToString(LastCall(q).status))
               /\ Contains(q.resp.body.error, RemoteText(LastCall(q).status))


\* the members of an answer that carry a public URL
UrlsOf(body) == {body[k] : k \in {"url", "imageUrl"} \cap DOMAIN body}

\* C26 (as claimed): an upload answered with success carries the public URL
\* of at least one file that this request wrote, and an upload whose form
\* has no file at all is answered with an error.
C26_NoEmptySuccess ==
  \A r \in Reqs :
    (reqs[r].method = "POST" /\ reqs[r].pc = "done") =>
      LET q == reqs[r]
      IN  /\ IsOk(q.resp.status) =>
               \E i \in 1..Len(q.log), u \in UrlsOf(q.resp.body) :
                 IsOk(q.log[i].status) /\ EndsWith(u, "/" \o q.log[i].path)
          /\ FilesOf(q.in) = {} => ~IsOk(q.resp.status)


\* the second write of a two-file upload failed after the first succeeded
SecondWriteFailed(q) ==
  /\ q.method = "POST" /\ Len(q.log) = 2
  /\ IsOk(q.log[1].status) /\ ~IsOk(q.log[2].status)

\* C29: when the second write of a two-file upload fails after the first
\* succeeded, the request ends with an error answer that carries no URL,
\* and the first file is, and stays, on the target branch with the content
\* of the form.
C29_NoRollback ==
  \A r \in Reqs :
    SecondWriteFailed(reqs[r]) =>
      LET q == reqs[r]
      IN  /\ q.pc = "done"
          /\ ~IsOk(q.resp.status)
          /\ "error" \in DOMAIN q.resp.body
          /\ UrlsOf(q.resp.body) = {}
          /\ q.log[1].path \in DOMAIN TreeOf(branchOf(env))
          /\ TreeOf(branchOf(env))[q.log[1].path] = BlobSha(q.in.file.content)

\* the image was refused for the credential after the file had been written
C29_Witness ==
  \E r \in Reqs :
    /\ SecondWriteFailed(reqs[r])
    /\ reqs[r].log[2].status = 401
    /\ reqs[r].resp.status = 400
    /\ reqs[r].log[1].path \in DOMAIN TreeOf(branchOf(env))


\* the files of the target branch, now and after the step
TargetTree == commits[refs[GH_BRANCH]]

TargetTreeNext == commits'[refs'[GH_BRANCH]]

\* the request makes the delete call of the direct path in this step
DirectDeleteCall(r) ==
  reqs[r].method = "DELETE" /\ reqs[r].pc = "deleteFile" /\ reqs'[r].pc # "deleteFile"

\* two direct deletes of one path
SamePathDeletes(a, b) ==
  /\ a # b
  /\ reqs[a].method = "DELETE" /\ reqs[b].method = "DELETE"
  /\ reqs[a].loc.path # "" /\ reqs[a].loc.path = reqs[b].loc.path
  /\ ~REQUIRE_PR

\* C27: the delete call of a direct delete removes the file only when the
\* target branch holds, at the path, the blob that the request read; then
\* only that path goes.  When the file was deleted or changed after the
\* read, the call is rejected, the branch stays as it is and the request
\* ends with an error.  Of two direct deletes of one path at most one
\* returns success.
C27_DeleteOnlyWhatWasRead ==
  [][/\ \A r \in Reqs :
          DirectDeleteCall(r) =>
            LET path == reqs[r].loc.path
                fresh == path \in DOMAIN TargetTree /\ TargetTree[path] = reqs[r].loc.shaMain
            IN  /\ reqs'[r].pc = "done"
                /\ reqs'[r].resp.body.ok =>
                     /\ fresh
                     /\ TargetTreeNext = TreeDel(TargetTree, path)
                /\ ~reqs'[r].resp.body.ok =>
                     /\ TargetTreeNext = TargetTree
                     /\ reqs'[r].resp.status >= 400
                /\ ~fresh => ~reqs'[r].resp.body.ok
      /\ \A a, b \in Reqs :
           SamePathDeletes(a, b)' => ~(Succeeded(reqs[a]) /\ Succeeded(reqs[b]))']_vars

\* two direct deletes of one path read the same blob; one deleted the file,
\* the delete call of the other was rejected
C27_Witness ==
  \E a, b \in Reqs :
    /\ SamePathDeletes(a, b)
    /\ Succeeded(reqs[a])
    /\ reqs[b].pc = "done" /\ ~reqs[b].resp.body.ok
    /\ Len(reqs[b].log) = 2
    /\ reqs[b].log[2].op = "deleteFile" /\ reqs[b].log[2].status \in {404, 409}
    /\ reqs[b].log[1].ret = reqs[a].log[1].ret


\* in the history hist, commit b is commit a or descends from it
RECURSIVE DescendsIn(_, _, _)
DescendsIn(hist, a, b) ==
  \/ a = b
  \/ b \in DOMAIN hist /\ hist[b].parent # "" /\ DescendsIn(hist, a, hist[b].parent)

\* the request makes its ref update in this step
RefUpdateCall(r) == reqs[r].method = "POST" /\ reqs[r].pc = "moveRef" /\ reqs'[r].pc = "done"

\* C28: in the deployment on the git data API the head of the target branch
\* only moves forward: the new head is the old head or descends from it, so
\* no published commit is dropped.  A request whose ref update comes after
\* the head has left the commit it read is answered 'move ref failed' and
\* leaves the head where it is.
C28_HeadOnlyMovesForward ==
  [][/\ DescendsIn(commits', refs[branchOf(env)], refs'[branchOf(env)])
     /\ \A r \in Reqs :
          (RefUpdateCall(r) /\ refs[branchOf(env)] # reqs[r].loc.baseSha) =>
            /\ reqs'[r].resp.status = 500
            /\ ~reqs'[r].resp.body.ok
            /\ reqs'[r].resp.body.error = "move ref failed"
            /\ refs' = refs]_vars

\* one upload moved the head while the other was between its ref read and
\* its ref update; the other was refused by the remote
C28_Witness ==
  \E a, b \in Reqs :
    /\ a # b
    /\ Succeeded(reqs[a])
    /\ reqs[b].pc = "done" /\ ~reqs[b].resp.body.ok
    /\ reqs[b].resp.body.error = "move ref failed"
    /\ Len(reqs[b].log) = 6 /\ reqs[b].log[6].status = 422
    /\ reqs[b].loc.baseSha # refs[branchOf(env)]
    /\ refs[branchOf(env)] = reqs[a].loc.newCommit


\* the listed images of the brand/model pair of a card: their positions in
\* the listing of images/
ImagesOfCard(q, card) ==
  {j \in 1..Len(q.loc.images) :
     LET meta == parse("images", q.loc.images[j].path)
     IN  meta.matched /\ meta.brand = card.brand /\ meta.model = card.model}

\* C30 (as claimed): every card built from the listings carries the image
\* of its brand/model pair with the greatest timestamp among the listed
\* images of the pair, and no image when the pair has none.
C30_FreshestImage ==
  \A r \in Reqs :
    (reqs[r].method = "CatalogApp" /\ reqs[r].pc = "done" /\ reqs[r].loc.errRemote = "") =>
      \A i \in 1..Len(reqs[r].loc.remoteItems) :
        LET q == reqs[r]
            card == q.loc.remoteItems[i]
            pics == ImagesOfCard(q, card)
        IN  IF pics = {} THEN card.image = Null
            ELSE \E j \in pics :
                   /\ card.image = Str(q.loc.images[j].url)
                   /\ \A k \in pics : parse("images", q.loc.images[k].path).ts
                                        <= parse("images", q.loc.images[j].path).ts



\* ---- the health checks and the configuration

\* the version of the endpoint that serves a request
EndpointOf(q) ==
  IF q.method = "GET" /\ "endpoint" \in DOMAIN q.in THEN q.in.endpoint ELSE "gh-upload"

IsPing(q) == q.method = "GET" /\ q.in.ping # ""

IsList(q) == q.method = "GET" /\ ~IsPing(q) /\ "list" \in DOMAIN q.in /\ q.in.list # ""

SessionRead(q) == "sessionRead" \in DOMAIN q.loc /\ q.loc.sessionRead

\* owner/name: a slash with text on both sides
OwnerAndName(repo) == \E i \in 2..(Len(repo) - 1) : SubSeq(repo, i, i) = "/"

MissingConfig == env.GH_TOKEN = "" \/ ~OwnerAndName(env.GH_REPO)

ConfigErrorOnly(q) ==
  /\ q.pc = "done"
  /\ ~q.resp.body.ok
  /\ "error" \in DOMAIN q.resp.body
  /\ q.resp.body.error = "Missing GH_TOKEN or GH_REPO env"
  /\ q.log = << >>
  /\ ~SessionRead(q)

\* C21: when the token or the repository identifier is missing, or the
\* identifier is not owner/name, every upload, delete, list and ping request
\* is answered with the error Missing GH_TOKEN or GH_REPO env, with no fetch
\* made and the session not read
C21_ConfigErrorFirst ==
  MissingConfig =>
    \A r \in Reqs :
      LET q == reqs[r]
      IN  q.method \in {"POST", "DELETE"} \/ IsPing(q) \/ IsList(q) => ConfigErrorOnly(q)



\* the fetches a request has made are all of the two reads of the ping
OnlyPingReads(q) == \A i \in DOMAIN q.log : q.log[i].op \in {"user", "repo"}

PingStepOf(r) == reqs'[r] # reqs[r] /\ IsPing(reqs[r])'

\* C22: a step of a ping request reads no session, is never refused as
\* Forbidden, makes no fetch other than GET /user and GET /repos, and leaves
\* the branches, the files and the pull requests of the repository as they
\* were
C22_PingReadOnly ==
  [][\A r \in Reqs :
       PingStepOf(r) =>
         /\ refs' = refs /\ commits' = commits /\ prs' = prs
         /\ ~SessionRead(reqs[r])'
         /\ OnlyPingReads(reqs[r])'
         /\ reqs'[r].resp.status # 403]_vars

\* pings of the session handler and of the git data version were answered
\* for an anonymous caller, after both fetches, while the same caller is
\* refused the listing
C22_Witness ==
  \E a, b \in Reqs :
    /\ IsPing(reqs[a]) /\ reqs[a].pc = "done" /\ Len(reqs[a].log) = 2
    /\ EndpointOf(reqs[a]) \in {"gh-upload", "git-data"}
    /\ reqs[a].caller.t = "anonymous" /\ reqs[a].resp.body.ok
    /\ IsList(reqs[b]) /\ reqs[b].pc = "done" /\ reqs[b].resp.status = 403
    /\ reqs[b].caller = reqs[a].caller



\* the statuses the remote answered to the fetches of a request, in order
StatusesOf(q) == [i \in DOMAIN q.log |-> q.log[i].status]

PingAnswered(q) == IsPing(q) /\ q.pc = "done"

\* C23: under one configuration, two answered pings of one version of the
\* endpoint that got the same statuses from the remote report the same ok,
\* whatever uploads and listings were served in between
C23_PingSameOutcome ==
  \A a, b \in Reqs :
    /\ PingAnswered(reqs[a]) /\ PingAnswered(reqs[b])
    /\ EndpointOf(reqs[a]) = EndpointOf(reqs[b])
    /\ StatusesOf(reqs[a]) = StatusesOf(reqs[b])
    => reqs[a].resp.body.ok = reqs[b].resp.body.ok

\* two pings of one version that made both fetches are answered with
\* ok: true, and an upload has moved the branch since the start
C23_Witness ==
  \E a, b \in Reqs :
    /\ a # b
    /\ PingAnswered(reqs[a]) /\ PingAnswered(reqs[b])
    /\ EndpointOf(reqs[a]) = EndpointOf(reqs[b])
    /\ EndpointOf(reqs[a]) \in {"gh-upload", "glb"}
    /\ Len(reqs[a].log) = 2 /\ StatusesOf(reqs[a]) = StatusesOf(reqs[b])
    /\ reqs[a].resp.body.ok
    /\ refs[branchOf(env)] # "c1"



\* two answered pings of one version that got the same statuses from the
\* remote
SameAnswers(a, b) ==
  /\ PingAnswered(reqs[a]) /\ PingAnswered(reqs[b])
  /\ EndpointOf(reqs[a]) = EndpointOf(reqs[b])
  /\ StatusesOf(reqs[a]) = StatusesOf(reqs[b])

TokenSet(q) == "token" \in DOMAIN q.loc /\ q.loc.token # ""

\* the texts of the response of a ping
TextsOf(q) ==
  LET b == q.resp.body
  IN  (IF "error" \in DOMAIN b THEN {b.error} ELSE {})
        \cup (IF "branch" \in DOMAIN b THEN {b.branch} ELSE {})
        \cup (IF "auth" \in DOMAIN b THEN {b.auth, b.repo} ELSE {})
        \cup (IF "env" \in DOMAIN b THEN {b.env.repo, b.env.branch} ELSE {})

=============================================================================
